---- MODULE Spec2Model ----
(***************************************************************************)
(* A model of geode's entity/component core: the Lifetime registry         *)
(* (debug/lifetime.rs), the FreeList slot allocator (util/free_list.rs),   *)
(* the Archetype allocator (entity.rs) and the component Storage           *)
(* (storage/core.rs).                                                      *)
(***************************************************************************)
EXTENDS Integers, Sequences, FiniteSets, TLC

\* ------------------------------------------------------------------ bounds

\* Number of Archetype::new calls in a run.
MaxArch == 2
\* Number of Archetype::spawn calls in a run.
MaxEnts == 3
\* Number of SlotData cells the registry may create.
MaxLSlots == 5
\* Archetype ids are drawn from 1..MaxId (NonZeroU32, scaled down).
MaxId == 2
\* Component values are drawn from 1..MaxVal.
MaxVal == 2
\* Number of Lifetime::new calls in a run of the registry alone (SpecLifetime).
MaxHandles == 3
\* Cap of a dependency counter in a run of the registry alone (SpecLifetime).
MaxDeps == 2
\* Number of Archetype::spawn calls in a run that also uses the Storage (Spec).
MaxStorageEnts == 2
\* Archetype::new and Archetype::spawn calls, together, in a run of the
\* archetype allocator alone (SpecArch)
MaxArchObjects == 4
\* Archetype::new and Archetype::spawn calls, together, in a run with one
\* Storage (Spec, SpecStorage)
MaxStorageObjects == 3
\* Archetype::spawn calls in a run whose archetypes keep their entities
\* (SpecLocal)
MaxLocalEnts == 4
\* archetypes and entities of a run that has one Storage run grow (SpecRun)
MaxRunArch == 1
MaxRunEnts == 3
\* Lifetime::new calls and Dependent wrappers constructed in a run of the
\* registry under Dependent wrappers (SpecDependent)
MaxDepHandles == 2
MaxDependents == 4
\* Archetype::spawn calls in a run that fills the slot table of one archetype
\* (SpecExhaust)
MaxExhaustEnts == 7
\* The first entities of such a run are the ones it may despawn.
MaxExhaustDespawns == 3

\* u64::MAX, scaled down: the generation at which a slot is leaked.
U64_MAX == 4
\* usize::MAX, scaled down: the largest dependency counter.
USIZE_MAX == 3
\* u32::MAX, scaled down: the largest slot index of a FreeList.
U32_MAX == 2

\* Archetypes and entities of the two builds run side by side (SpecTwin)
MaxTwinArch == 1
MaxTwinEnts == 3

\* The largest capacity HashMap::reserve leaves a WeakArchetypeMap with (SpecWeak)
MaxWeakCap == 3

\* Tasks pushed on the TaskQueue (SpecQueue)
MaxTasks == 5

\* Threads and Lifetime::new calls of a run with racing threads (SpecRace)
MaxThreads == 2
MaxRaceHandles == 2

ArchIds == 1..MaxId
Threads == 1..MaxThreads
Vals == 1..MaxVal
LSlotIds == 1..MaxLSlots

\* ------------------------------------------------------------------- state

VARIABLES
    debug_assertions, \* the build configuration: cfg!(debug_assertions)
    slotData,         \* SlotData of every registry cell: [gen, deps]
    created,          \* number of SlotData cells created so far
    pool,             \* cells that were released to the pool
    ids,              \* RandIdGen.ids: the archetype ids in use
    archs,            \* the Archetype objects, in creation order
    ents,             \* the Entity handles returned by spawn, in spawn order
    storage,          \* Storage.archetypes: archetype id -> StorageRun
    storageB,         \* Storage.archetypes of a second Storage (SpecStorages)
    handles,          \* the Lifetime handles returned by Lifetime::new (SpecLifetime)
    dependents,       \* the Dependent<Lifetime> wrappers constructed: [lt, live]
    thr,              \* per thread, the registry call it is in the middle of (SpecRace)
    freeLog,          \* history: the handles whose destroy called db::free_slot, in order
    counted,          \* history: per handle, the try_inc_dep calls that returned true
                      \* less the dec_dep calls made before its destruction
    twin,             \* one program built with debug_assertions and one built
                      \* without, given the same calls (SpecTwin)
    wmap,             \* a WeakArchetypeMap: its HashMap and the HashMap's capacity
    wret,             \* what the last WeakArchetypeMap call returned
    wstored,          \* history: per Archetype object, the value last inserted under
                      \* its weak id while it was alive and not removed since (0: none)
    task_queue,       \* a TaskQueue: [task_stack, tasks_to_add]
    pushCtx,          \* history: per task, the tasks pushed before it since the last
                      \* next_task, and the older tasks pending when it was pushed
    returned,         \* history: the tasks next_task returned, in order
    fresh,            \* history: the tasks pushed since the last next_task
    log,              \* the messages logged by the last call
    panicked,         \* the last call panicked
    last,             \* the last call: operation, arguments, result
    spawnedBy,        \* history: the Archetype object that spawned each entity
    despawned,        \* history: entities whose despawn reached FreeList::dealloc
    freed,            \* history: per Archetype, slots freed by despawn, not reissued
    destroyed,        \* history: handles whose destroy/try_destroy succeeded (SpecLifetime)
    scenario          \* history: how far the run has followed the end-to-end script

vars == <<debug_assertions, slotData, created, pool, ids, archs, ents, storage,
          storageB, handles, thr, freeLog, counted, twin,
          wmap, wret, wstored, task_queue, pushCtx, returned, fresh, dependents, log, panicked, last, spawnedBy, despawned, freed,
          destroyed, scenario>>

raceVars == <<thr, freeLog, counted>>
weakVars == <<wmap, wret, wstored>>
queueVars == <<task_queue, pushCtx, returned, fresh>>
sideVars == <<raceVars, twin, weakVars, queueVars>>

\* --------------------------------------------------------- Lifetime registry

\* The registry state an operation works on, with the log and the panic flag of
\* the call in progress and the build configuration the code was compiled for,
\* cfg!(debug_assertions).
Env ==
    [data |-> slotData, created |-> created, pool |-> pool,
     log |-> {}, panicked |-> FALSE, debug |-> debug_assertions]

Logged(env, msg) == [env EXCEPT !.log = @ \cup {msg}]

\* release_impl::DebugLifetime: a zero-sized value.
Stub == [slot |-> 0, gen |-> 0]

\* db::alloc_slot: a cell of the pool.  The pool is refilled in blocks of fresh
\* cells, every fresh cell is SlotData{gen: 1, deps: 0}; one fresh cell stands
\* for the fresh cells of the block.
AllocChoices(env) ==
    env.pool \cup (IF env.created < MaxLSlots THEN {env.created + 1} ELSE {})

alloc_slot(env, s) ==
    IF s \in env.pool
    THEN [env EXCEPT !.pool = @ \ {s}]
    ELSE [env EXCEPT !.created = s]

\* db::free_slot
free_slot(env, s) == [env EXCEPT !.pool = @ \cup {s}]

\* Lifetime::new, drawing cell s: the handle and the registry afterwards.
LifetimeNew(env, s) ==
    [lt |-> [slot |-> s, gen |-> env.data[s].gen], env |-> alloc_slot(env, s)]

\* Mutant of LifetimeEq: the slot is not compared.
LifetimeEqGenOnly(a, b) == a.gen = b.gen

\* impl PartialEq for Lifetime
LifetimeEq(a, b) == a.slot = b.slot /\ a.gen = b.gen

\* Lifetime::is_alive
is_alive(env, lt) == lt.gen = env.data[lt.slot].gen

\* Lifetime::try_inc_dep.  checked_add(1) panics at usize::MAX; a call that
\* panics returns nothing, ok is then of no account.
try_inc_dep(env, lt) ==
    IF env.data[lt.slot].gen # lt.gen
    THEN [ok |-> FALSE, env |-> env]
    ELSE IF env.data[lt.slot].deps = USIZE_MAX
         THEN [ok |-> TRUE, env |-> [env EXCEPT !.panicked = TRUE]]
         ELSE [ok |-> TRUE, env |-> [env EXCEPT !.data[lt.slot].deps = @ + 1]]

\* Lifetime::inc_dep
inc_dep(env, lt) ==
    LET r == try_inc_dep(env, lt)
    IN  IF r.ok THEN r.env ELSE Logged(r.env, "inc_dep on dead lifetime")

\* Mutant of dec_dep: the generation of the handle is not compared.
dec_dep_any_gen(env, lt) ==
    IF env.data[lt.slot].deps = 0
    THEN [env EXCEPT !.panicked = TRUE]
    ELSE [env EXCEPT !.data[lt.slot].deps = @ - 1]

\* Mutant of dec_dep: wrapping_sub in place of checked_sub.
dec_dep_wrapping(env, lt) ==
    IF env.data[lt.slot].gen # lt.gen
    THEN env
    ELSE [env EXCEPT !.data[lt.slot].deps = IF @ = 0 THEN USIZE_MAX ELSE @ - 1]

\* Lifetime::dec_dep
dec_dep(env, lt) ==
    IF env.data[lt.slot].gen # lt.gen
    THEN env
    ELSE IF env.data[lt.slot].deps = 0
         THEN [env EXCEPT !.panicked = TRUE]
         ELSE [env EXCEPT !.data[lt.slot].deps = @ - 1]

\* NonZeroU64::saturating_add(1)
SaturatingInc(g) == IF g >= U64_MAX THEN U64_MAX ELSE g + 1

\* Mutant of try_destroy: the generation is not bumped.
try_destroy_same_gen(env, lt) ==
    IF env.data[lt.slot].gen # lt.gen
    THEN [ok |-> FALSE, env |-> env]
    ELSE [ok |-> TRUE,
          env |-> free_slot([env EXCEPT !.data[lt.slot].deps = 0], lt.slot)]

\* Mutant of try_destroy: outstanding dependencies are not reported.
try_destroy_silent(env, lt) ==
    IF env.data[lt.slot].gen # lt.gen
    THEN [ok |-> FALSE, env |-> env]
    ELSE LET g  == SaturatingInc(env.data[lt.slot].gen)
             e2 == [env EXCEPT !.data[lt.slot] = [gen |-> g, deps |-> 0]]
         IN  [ok  |-> TRUE,
              env |-> IF g # U64_MAX THEN free_slot(e2, lt.slot)
                      ELSE Logged(e2, "lifetime leaked")]

\* Mutant of try_destroy: the generation of the handle is not compared.
try_destroy_any_gen(env, lt) ==
    LET g  == SaturatingInc(env.data[lt.slot].gen)
        e2 == [env EXCEPT !.data[lt.slot] = [gen |-> g, deps |-> 0]]
    IN  [ok  |-> TRUE,
         env |-> IF g # U64_MAX THEN free_slot(e2, lt.slot)
                 ELSE Logged(e2, "lifetime leaked")]

\* Mutant of try_destroy: a cell with dependencies counted on it is kept out of
\* the pool.
try_destroy_if_no_deps(env, lt) ==
    IF env.data[lt.slot].gen # lt.gen
    THEN [ok |-> FALSE, env |-> env]
    ELSE LET d  == env.data[lt.slot].deps
             e1 == IF d > 0 THEN Logged(env, "disconnected dependencies") ELSE env
             g  == SaturatingInc(e1.data[lt.slot].gen)
             e2 == [e1 EXCEPT !.data[lt.slot] = [gen |-> g, deps |-> 0]]
         IN  [ok  |-> TRUE,
              env |-> IF g = U64_MAX THEN Logged(e2, "lifetime leaked")
                      ELSE IF d = 0 THEN free_slot(e2, lt.slot) ELSE e2]

\* Mutant of try_destroy: the cell is released whatever its generation.
try_destroy_always_free(env, lt) ==
    IF env.data[lt.slot].gen # lt.gen
    THEN [ok |-> FALSE, env |-> env]
    ELSE LET g == SaturatingInc(env.data[lt.slot].gen)
         IN  [ok  |-> TRUE,
              env |-> free_slot([env EXCEPT !.data[lt.slot] = [gen |-> g, deps |-> 0]],
                                lt.slot)]

\* Mutant of try_destroy_locked: the generation is not bumped.
try_destroy_locked_same_gen(env, lt) ==
    IF env.data[lt.slot].gen # lt.gen
    THEN [ok |-> FALSE, release |-> FALSE, env |-> env]
    ELSE [ok |-> TRUE, release |-> TRUE,
          env |-> [env EXCEPT !.data[lt.slot].deps = 0]]

\* Mutant of try_destroy_locked: the dependency counter is not reset.
try_destroy_locked_keep_deps(env, lt) ==
    IF env.data[lt.slot].gen # lt.gen
    THEN [ok |-> FALSE, release |-> FALSE, env |-> env]
    ELSE LET g == SaturatingInc(env.data[lt.slot].gen)
         IN  [ok |-> TRUE, release |-> g # U64_MAX,
              env |-> [env EXCEPT !.data[lt.slot].gen = g]]

\* Lifetime::try_destroy while it holds the cell's mutex: the generation test,
\* the report of outstanding dependencies, the reset of the cell; release is
\* whether db::free_slot follows once the mutex is dropped.
try_destroy_locked(env, lt) ==
    IF env.data[lt.slot].gen # lt.gen
    THEN [ok |-> FALSE, release |-> FALSE, env |-> env]
    ELSE LET e1 == IF env.data[lt.slot].deps > 0
                   THEN Logged(env, "disconnected dependencies")
                   ELSE env
             g  == SaturatingInc(e1.data[lt.slot].gen)
             e2 == [e1 EXCEPT !.data[lt.slot] = [gen |-> g, deps |-> 0]]
         IN  [ok |-> TRUE, release |-> g # U64_MAX,
              env |-> IF g # U64_MAX THEN e2 ELSE Logged(e2, "lifetime leaked")]

\* Lifetime::try_destroy
try_destroy(env, lt) ==
    LET r == try_destroy_locked(env, lt)
    IN  [ok  |-> r.ok,
         env |-> IF r.release THEN free_slot(r.env, lt.slot) ELSE r.env]

\* Lifetime::destroy
destroy(env, lt) ==
    LET r == try_destroy(env, lt)
    IN  IF r.ok THEN r.env ELSE Logged(r.env, "destroy of dead lifetime")

\* --------------------------------------------------------- DebugLifetime

\* The cells DebugLifetime::new may draw: none in a release build.
DLChoices(env) == IF env.debug THEN AllocChoices(env) ELSE {0}

\* DebugLifetime::new
DLNew(env, s) ==
    IF env.debug THEN LifetimeNew(env, s) ELSE [lt |-> Stub, env |-> env]

\* DebugLifetime::from_lifetime
DLFrom(lt) == IF debug_assertions THEN lt ELSE Stub

\* DebugLifetime::is_possibly_alive
DLIsPossiblyAlive(env, dl) == IF env.debug THEN is_alive(env, dl) ELSE TRUE

\* DebugLifetime::is_condemned
DLIsCondemned(env, dl) == ~DLIsPossiblyAlive(env, dl)

\* DebugLifetime::inc_dep
DLIncDep(env, dl) == IF env.debug THEN inc_dep(env, dl) ELSE env

\* DebugLifetime::dec_dep
DLDecDep(env, dl) == IF env.debug THEN dec_dep(env, dl) ELSE env

\* DebugLifetime::destroy
DLDestroy(env, dl) == IF env.debug THEN destroy(env, dl) ELSE env

\* ---------------------------------------------------------------- FreeList

\* Option<T>
None == [some |-> FALSE, val |-> Stub]
Some(v) == [some |-> TRUE, val |-> v]

\* FreeList::default
FreeListDefault == [slots |-> <<>>, free |-> {}]

\* impl Drop for OwnedLifetime<DebugLifetime>, for an Option of it.
DropOwned(env, opt) == IF opt.some THEN DLDestroy(env, opt.val) ELSE env

\* (&self.free).iter().next(): hibitset iterates in ascending order.
FirstFree(free) == CHOOSE s \in free : \A t \in free : s <= t

\* Mutant of FreeListAlloc: the free set is ignored, the slot table only grows.
FreeListAllocGrowOnly(env, fl, value) ==
    [slot |-> Len(fl.slots),
     fl   |-> [slots |-> Append(fl.slots, Some(value)), free |-> fl.free],
     env  |-> env]

\* Mutant of FreeListAlloc: the length is cast to u32 (`as u32`), which wraps.
FreeListAllocWrapping(env, fl, value) ==
    IF fl.free # {}
    THEN LET slot == FirstFree(fl.free)
         IN  [slot |-> slot,
              fl   |-> [slots |-> [fl.slots EXCEPT ![slot + 1] = Some(value)],
                        free  |-> fl.free \ {slot}],
              env  |-> DropOwned(env, fl.slots[slot + 1])]
    ELSE LET slot == Len(fl.slots) % (U32_MAX + 1)
         IN  [slot |-> slot,
              fl   |-> [slots |-> Append(fl.slots, Some(value)),
                        free  |-> fl.free \cup {slot}],
              env  |-> env]

\* FreeList::alloc.  Slot indices count from 0; slots[i + 1] is slot i.  The
\* value a slot held before the assignment is dropped.  u32::try_from of a
\* length above u32::MAX fails and unwrap panics: the value is dropped by the
\* unwinding, nothing is pushed and no slot is returned.
FreeListAlloc(env, fl, value) ==
    IF fl.free # {}
    THEN LET slot == FirstFree(fl.free)
         IN  [slot |-> slot,
              fl   |-> [slots |-> [fl.slots EXCEPT ![slot + 1] = Some(value)],
                        free  |-> fl.free \ {slot}],
              env  |-> DropOwned(env, fl.slots[slot + 1])]
    ELSE IF Len(fl.slots) > U32_MAX
         THEN [slot |-> 0, fl |-> fl,
               env  |-> [DropOwned(env, Some(value)) EXCEPT !.panicked = TRUE]]
         ELSE LET slot == Len(fl.slots)
              IN  [slot |-> slot,
                   fl   |-> [slots |-> Append(fl.slots, Some(value)),
                             free  |-> fl.free \cup {slot}],
                   env  |-> env]

\* Mutant of FreeListDealloc: the slot is emptied but not marked free.
FreeListDeallocNoFree(env, fl, slot) ==
    IF slot >= Len(fl.slots)
    THEN [fl |-> fl, env |-> [env EXCEPT !.panicked = TRUE]]
    ELSE [fl  |-> [fl EXCEPT !.slots[slot + 1] = None],
          env |-> DropOwned(env, fl.slots[slot + 1])]

\* FreeList::dealloc, the returned Option dropped by the caller.  Indexing
\* past the end of the slot vector panics, after the bit was set.
FreeListDealloc(env, fl, slot) ==
    IF slot >= Len(fl.slots)
    THEN [fl  |-> [fl EXCEPT !.free = @ \cup {slot}],
          env |-> [env EXCEPT !.panicked = TRUE]]
    ELSE [fl  |-> [slots |-> [fl.slots EXCEPT ![slot + 1] = None],
                   free  |-> fl.free \cup {slot}],
          env |-> DropOwned(env, fl.slots[slot + 1])]

\* FreeList::get
FreeListGet(fl, slot) == IF slot < Len(fl.slots) THEN fl.slots[slot + 1] ELSE None

\* --------------------------------------------------------------- Archetype

\* Archetype::id
ArchetypeIdOf(a) == [lifetime |-> DLFrom(a.lifetime), id |-> a.id]

\* impl PartialEq for ArchetypeId: DebugLifetime values always compare equal.
ArchetypeIdEq(x, y) == x.id = y.id

\* The Archetype objects that exist.
LiveArchs == {a \in 1..Len(archs) : ~archs[a].dropped}

NoCall == [op |-> "none", arch |-> 0, ent |-> 0, val |-> 0, ret |-> 0]

\* The end-to-end script of the allocator: two archetypes, Entity 1 and 2 in the
\* first, Entity 3 and 4 in the second, despawn Entity 1, Entity 5 and 6 in the
\* first, despawn Entity 3, Entity 7 in the second.
Script ==
    << [op |-> "new", arch |-> 1, ent |-> 0], [op |-> "new", arch |-> 2, ent |-> 0],
       [op |-> "spawn", arch |-> 1, ent |-> 1], [op |-> "spawn", arch |-> 1, ent |-> 2],
       [op |-> "spawn", arch |-> 2, ent |-> 3], [op |-> "spawn", arch |-> 2, ent |-> 4],
       [op |-> "despawn", arch |-> 1, ent |-> 1],
       [op |-> "spawn", arch |-> 1, ent |-> 5], [op |-> "spawn", arch |-> 1, ent |-> 6],
       [op |-> "despawn", arch |-> 2, ent |-> 3],
       [op |-> "spawn", arch |-> 2, ent |-> 7] >>

\* scenario = n: the allocator calls so far are exactly the first n of the
\* script; -1: the run left the script.
Follow(op, a, k) ==
    scenario' = IF /\ scenario >= 0
                   /\ scenario < Len(Script)
                   /\ Script[scenario + 1] = [op |-> op, arch |-> a, ent |-> k]
                THEN scenario + 1 ELSE -1

Commit(env) ==
    /\ slotData' = env.data
    /\ created' = env.created
    /\ pool' = env.pool
    /\ log' = env.log
    /\ panicked' = env.panicked

\* Mutant of RandIdGenAlloc: the drawn id is not checked against the ids in use.
RandIdGenAllocUnchecked(idset) == 0..MaxId

\* RandIdGen::alloc: the ids the loop can leave with, a non-zero random id whose
\* insertion into the set of ids in use succeeded.
RandIdGenAlloc(idset) == {id \in 0..MaxId : id # 0 /\ id \notin idset}

\* RandIdGen::dealloc: the ids in use afterwards, and whether the id was there
\* (debug_assert!(removed)).
RandIdGenDealloc(idset, id) == [ids |-> idset \ {id}, removed |-> id \in idset]

\* Archetype::new: alloc_id draws a random id that is not in use, then
\* Lifetime::new.
ArchetypeNew ==
    /\ ~panicked
    /\ Len(archs) < MaxArch
    /\ \E id \in RandIdGenAlloc(ids) : \E s \in AllocChoices(Env) :
          LET r == LifetimeNew(Env, s)
          IN  /\ ids' = ids \cup {id}
              /\ archs' = Append(archs, [id |-> id, lifetime |-> r.lt,
                                         slots |-> FreeListDefault,
                                         dropped |-> FALSE])
              /\ freed' = Append(freed, {})
              /\ Commit(r.env)
              /\ last' = [op |-> "new", arch |-> Len(archs) + 1, ent |-> 0, val |-> 0,
                          ret |-> id]
    /\ Follow("new", Len(archs) + 1, 0)
    /\ UNCHANGED <<debug_assertions, sideVars, dependents, storageB, ents, storage, handles, spawnedBy, despawned,
                   destroyed>>

\* Archetype::spawn on Archetype object a.
Spawn(a) ==
    /\ ~panicked
    /\ a \in LiveArchs
    /\ \E s \in DLChoices(Env) :
          LET n == DLNew(Env, s)
              r == FreeListAlloc(n.env, archs[a].slots, n.lt)
              e == [lifetime |-> n.lt, archetype |-> ArchetypeIdOf(archs[a]),
                    slot |-> r.slot]
          IN  /\ archs' = [archs EXCEPT ![a].slots = r.fl]
              /\ ents' = IF r.env.panicked THEN ents ELSE Append(ents, e)
              /\ spawnedBy' = IF r.env.panicked THEN spawnedBy
                              ELSE Append(spawnedBy, a)
              /\ freed' = IF r.env.panicked THEN freed
                          ELSE [freed EXCEPT ![a] = @ \ {r.slot}]
              /\ Commit(r.env)
              /\ last' = [op |-> "spawn", arch |-> a, val |-> 0,
                          ent |-> IF r.env.panicked THEN 0 ELSE Len(ents) + 1,
                          ret |-> r.slot]
    /\ Follow("spawn", a, Len(ents) + 1)
    /\ UNCHANGED <<debug_assertions, sideVars, dependents, storageB, ids, storage, handles, despawned, destroyed>>

\* Mutant of ArchetypeDespawn: the owning archetype is not checked.
ArchetypeDespawnNoOwnerCheck(env, a, entity) ==
    IF DLIsCondemned(env, entity.lifetime)
    THEN [fl |-> a.slots, dealloc |-> FALSE,
          env |-> Logged(env, "despawn of dead entity")]
    ELSE LET r == FreeListDealloc(env, a.slots, entity.slot)
         IN  [fl |-> r.fl, dealloc |-> TRUE, env |-> r.env]

\* Mutant of ArchetypeDespawn: a dead entity is refused without an error.
ArchetypeDespawnSilent(env, a, entity) ==
    IF env.debug /\ entity.archetype.id # a.id
    THEN [fl |-> a.slots, dealloc |-> FALSE,
          env |-> Logged(env, "despawn from non-owning archetype")]
    ELSE IF DLIsCondemned(env, entity.lifetime)
         THEN [fl |-> a.slots, dealloc |-> FALSE, env |-> env]
         ELSE LET r == FreeListDealloc(env, a.slots, entity.slot)
              IN  [fl |-> r.fl, dealloc |-> TRUE, env |-> r.env]

\* Mutant of ArchetypeDespawn: the entity's liveness is not checked.
ArchetypeDespawnNoDeadCheck(env, a, entity) ==
    IF env.debug /\ entity.archetype.id # a.id
    THEN [fl |-> a.slots, dealloc |-> FALSE,
          env |-> Logged(env, "despawn from non-owning archetype")]
    ELSE LET r == FreeListDealloc(env, a.slots, entity.slot)
         IN  [fl |-> r.fl, dealloc |-> TRUE, env |-> r.env]

\* Archetype::despawn: the slots and the registry afterwards, and whether the
\* call got to FreeList::dealloc.
ArchetypeDespawn(env, a, entity) ==
    IF env.debug /\ entity.archetype.id # a.id
    THEN [fl |-> a.slots, dealloc |-> FALSE,
          env |-> Logged(env, "despawn from non-owning archetype")]
    ELSE IF DLIsCondemned(env, entity.lifetime)
         THEN [fl |-> a.slots, dealloc |-> FALSE,
               env |-> Logged(env, "despawn of dead entity")]
         ELSE LET r == FreeListDealloc(env, a.slots, entity.slot)
              IN  [fl |-> r.fl, dealloc |-> TRUE, env |-> r.env]

\* Archetype::despawn(ents[k]) on Archetype object a: what it does to the
\* archetype and the registry.
DespawnCall(a, k) ==
    /\ ~panicked
    /\ a \in LiveArchs
    /\ k \in 1..Len(ents)
    /\ LET r == ArchetypeDespawn(Env, archs[a], ents[k])
           acc == r.dealloc /\ ~r.env.panicked
       IN  /\ archs' = [archs EXCEPT ![a].slots = r.fl]
           /\ despawned' = IF acc THEN despawned \cup {k} ELSE despawned
           /\ freed' = IF acc THEN [freed EXCEPT ![a] = @ \cup {ents[k].slot}]
                       ELSE freed
           /\ Commit(r.env)
           /\ last' = [op |-> "despawn", arch |-> a, ent |-> k, val |-> 0,
                       ret |-> IF acc THEN 1 ELSE 0]
    /\ Follow("despawn", a, k)
    /\ UNCHANGED <<debug_assertions, sideVars, dependents, storageB, ids, ents, handles, spawnedBy, destroyed>>

\* Mutant of DropSlots: the slot vector is leaked.
DropSlotsLeak(env, slots) == env

\* Dropping the slot vector: every OwnedLifetime in it is dropped, in order.
RECURSIVE DropSlots(_, _)
DropSlots(env, slots) ==
    IF slots = <<>> THEN env
    ELSE DropSlots(DropOwned(env, Head(slots)), Tail(slots))

\* impl Drop for Archetype (dealloc_id), then its fields: the OwnedLifetime of
\* the archetype, then the slots.
ArchetypeDrop(a) ==
    /\ ~panicked
    /\ a \in LiveArchs
    /\ LET d  == RandIdGenDealloc(ids, archs[a].id)
           e1 == IF debug_assertions /\ ~d.removed
                 THEN [Env EXCEPT !.panicked = TRUE] ELSE Env
           e2 == destroy(e1, archs[a].lifetime)
           e3 == DropSlots(e2, archs[a].slots.slots)
       IN  /\ ids' = d.ids
           /\ archs' = [archs EXCEPT ![a].dropped = TRUE]
           /\ Commit(e3)
           /\ last' = [op |-> "drop", arch |-> a, ent |-> 0, val |-> 0, ret |-> 0]
    /\ Follow("drop", a, 0)
    /\ UNCHANGED <<debug_assertions, sideVars, dependents, storageB, ents, storage, handles, spawnedBy, despawned,
                   freed, destroyed>>

\* ----------------------------------------------------------------- Storage

\* Option<T> of a component value.
NoVal == [some |-> FALSE, val |-> 0]
SomeVal(v) == [some |-> TRUE, val |-> v]

\* StorageSlot::Empty and StorageSlot::Full
Empty == [full |-> FALSE, lifetime |-> Stub, value |-> 0]
Full(lt, v) == [full |-> TRUE, lifetime |-> lt, value |-> v]

\* StorageSlot::into_value
IntoValue(slot) == IF slot.full THEN SomeVal(slot.value) ELSE NoVal

\* Dropping a StorageSlot drops its Dependent: impl Drop for Dependent.
DropSlot(env, slot) == IF slot.full THEN DLDecDep(env, slot.lifetime) ELSE env

\* StorageRun::new
StorageRunNew(archetype) == [archetype |-> archetype, comps |-> <<>>]

\* The map is keyed by ArchetypeId, whose equality and hash are those of its id.
HasRun(st, archetype) == archetype.id \in DOMAIN st

\* Storage::get_or_create_run
get_or_create_run(env, st, archetype) ==
    [env |-> IF DLIsCondemned(env, archetype.lifetime)
             THEN Logged(env, "run of dead archetype") ELSE env,
     st  |-> IF HasRun(st, archetype) THEN st
             ELSE [i \in DOMAIN st \cup {archetype.id} |->
                     IF i = archetype.id THEN StorageRunNew(archetype) ELSE st[i]]]

\* Mutant of get_slot_by_idx: a condemned stored lifetime is not reported.
get_slot_by_idx_silent(env, run, slot_idx) ==
    [slot |-> IF slot_idx < Len(run.comps) THEN run.comps[slot_idx + 1] ELSE Empty,
     env  |-> env]

\* StorageRunView::get_slot_by_idx: the slot's pair, and the error it logs when
\* the stored lifetime is condemned.
get_slot_by_idx(env, run, slot_idx) ==
    LET slot == IF slot_idx < Len(run.comps) THEN run.comps[slot_idx + 1] ELSE Empty
    IN  [slot |-> slot,
         env  |-> IF slot.full /\ DLIsCondemned(env, slot.lifetime)
                  THEN Logged(env, "fetched slot of dead entity") ELSE env]

\* Mutant of ResizeWith: one slot too many.
ResizeWithOneMore(comps, n) ==
    IF Len(comps) >= n THEN comps
    ELSE comps \o [i \in 1..(n + 1 - Len(comps)) |-> Empty]

\* Vec::resize_with(n, || StorageSlot::Empty), for n above the length.
RECURSIVE ResizeWith(_, _)
ResizeWith(comps, n) ==
    IF Len(comps) >= n THEN comps ELSE ResizeWith(Append(comps, Empty), n)

\* Mutant of StorageRunInsert: a Full slot keeps its content.
StorageRunInsertKeepOld(env, run, entity, value) ==
    LET comps == ResizeWith(run.comps, entity.slot + 1)
        replaced == comps[entity.slot + 1]
    IN  IF replaced.full
        THEN [run |-> run, old |-> IntoValue(replaced), env |-> env]
        ELSE [run |-> [run EXCEPT !.comps =
                         [comps EXCEPT ![entity.slot + 1] = Full(entity.lifetime, value)]],
              old |-> NoVal,
              env |-> DLIncDep(env, entity.lifetime)]

\* Mutant of StorageRunInsert: the replaced slot is forgotten, not dropped.
StorageRunInsertForget(env, run, entity, value) ==
    LET comps == ResizeWith(run.comps, entity.slot + 1)
    IN  [run |-> [run EXCEPT !.comps =
                     [comps EXCEPT ![entity.slot + 1] = Full(entity.lifetime, value)]],
         old |-> IntoValue(comps[entity.slot + 1]),
         env |-> DLIncDep(env, entity.lifetime)]

\* StorageRun::insert: Dependent::new runs before the slot is replaced, the
\* replaced slot's Dependent is dropped after.
StorageRunInsert(env, run, entity, value) ==
    LET e1 == IF env.debug /\ ~ArchetypeIdEq(entity.archetype, run.archetype)
              THEN Logged(env, "insert from a different archetype") ELSE env
        e2 == IF DLIsCondemned(e1, entity.lifetime)
              THEN Logged(e1, "attach to dead entity") ELSE e1
        comps == ResizeWith(run.comps, entity.slot + 1)
        e3 == DLIncDep(e2, entity.lifetime)
        replaced == comps[entity.slot + 1]
    IN  [run |-> [run EXCEPT !.comps =
                     [comps EXCEPT ![entity.slot + 1] = Full(entity.lifetime, value)]],
         old |-> IntoValue(replaced),
         env |-> DropSlot(e3, replaced)]

\* Mutant of TrimEmpty: one trailing Empty slot is popped, not all of them.
TrimEmptyOnce(comps) ==
    IF comps # <<>> /\ ~comps[Len(comps)].full
    THEN SubSeq(comps, 1, Len(comps) - 1)
    ELSE comps

\* Mutant of TrimEmpty: the trailing Empty slots stay.
TrimEmptyKeep(comps) == comps

\* while matches!(comps.last(), Some(StorageSlot::Empty)) { comps.pop(); }
RECURSIVE TrimEmpty(_)
TrimEmpty(comps) ==
    IF comps # <<>> /\ ~comps[Len(comps)].full
    THEN TrimEmpty(SubSeq(comps, 1, Len(comps) - 1))
    ELSE comps

\* Mutant of StorageRunRemove: the run is cut at the slot that was asked for.
StorageRunRemoveCut(env, run, slot) ==
    IF slot >= Len(run.comps)
    THEN [run |-> run, old |-> NoVal, env |-> env]
    ELSE LET removed == run.comps[slot + 1]
         IN  [run |-> [run EXCEPT !.comps = SubSeq(run.comps, 1, slot)],
              old |-> IntoValue(removed),
              env |-> DropSlot(env, removed)]

\* StorageRun::remove
StorageRunRemove(env, run, slot) ==
    IF slot >= Len(run.comps)
    THEN [run |-> run, old |-> NoVal, env |-> env]
    ELSE LET removed == run.comps[slot + 1]
         IN  [run |-> [run EXCEPT !.comps =
                          TrimEmpty([run.comps EXCEPT ![slot + 1] = Empty])],
              old |-> IntoValue(removed),
              env |-> DropSlot(env, removed)]

\* Storage::insert
StorageInsert(env, st, entity, value) ==
    LET g == get_or_create_run(env, st, entity.archetype)
        r == StorageRunInsert(g.env, g.st[entity.archetype.id], entity, value)
    IN  [st  |-> [g.st EXCEPT ![entity.archetype.id] = r.run],
         old |-> r.old,
         env |-> r.env]

\* Mutant of StorageAdd: a component that exists is kept.
StorageAddKeepExisting(env, st, entity, value) ==
    LET g == get_or_create_run(env, st, entity.archetype)
        s == get_slot_by_idx(g.env, g.st[entity.archetype.id], entity.slot)
    IN  IF s.slot.full
        THEN [st |-> g.st, old |-> IntoValue(s.slot),
              env |-> IF env.debug
                      THEN Logged(s.env, "add of an existing component") ELSE g.env]
        ELSE LET r == StorageRunInsert(g.env, g.st[entity.archetype.id], entity, value)
             IN  [st  |-> [g.st EXCEPT ![entity.archetype.id] = r.run],
                  old |-> r.old,
                  env |-> r.env]

\* Storage::add
StorageAdd(env, st, entity, value) ==
    LET g == get_or_create_run(env, st, entity.archetype)
        s == get_slot_by_idx(g.env, g.st[entity.archetype.id], entity.slot)
        e1 == IF env.debug /\ s.slot.full
              THEN Logged(s.env, "add of an existing component") ELSE s.env
        r == StorageRunInsert(e1, g.st[entity.archetype.id], entity, value)
    IN  [st  |-> [g.st EXCEPT ![entity.archetype.id] = r.run],
         old |-> r.old,
         env |-> r.env]

\* Mutant of StorageTryRemove: the run goes with the first component removed.
StorageTryRemoveDropRun(env, st, entity) ==
    IF ~HasRun(st, entity.archetype)
    THEN [st |-> st, old |-> NoVal, env |-> env]
    ELSE LET r == StorageRunRemove(env, st[entity.archetype.id], entity.slot)
         IN  [st  |-> IF r.old.some
                      THEN [i \in DOMAIN st \ {entity.archetype.id} |-> st[i]]
                      ELSE [st EXCEPT ![entity.archetype.id] = r.run],
              old |-> r.old,
              env |-> r.env]

\* Mutant of StorageTryRemove: a run that the removal has emptied stays in the map.
StorageTryRemoveKeepRun(env, st, entity) ==
    IF ~HasRun(st, entity.archetype)
    THEN [st |-> st, old |-> NoVal, env |-> env]
    ELSE LET r == StorageRunRemove(env, st[entity.archetype.id], entity.slot)
         IN  [st  |-> [st EXCEPT ![entity.archetype.id] = r.run],
              old |-> r.old,
              env |-> r.env]

\* Storage::try_remove
StorageTryRemove(env, st, entity) ==
    LET e1 == IF DLIsCondemned(env, entity.lifetime)
              THEN Logged(env, "remove from dead entity") ELSE env
    IN  IF ~HasRun(st, entity.archetype)
        THEN [st |-> st, old |-> NoVal, env |-> e1]
        ELSE LET r == StorageRunRemove(e1, st[entity.archetype.id], entity.slot)
             IN  [st  |-> IF r.old.some /\ r.run.comps = <<>>
                          THEN [i \in DOMAIN st \ {entity.archetype.id} |-> st[i]]
                          ELSE [st EXCEPT ![entity.archetype.id] = r.run],
                  old |-> r.old,
                  env |-> r.env]

\* Storage::remove
StorageRemove(env, st, entity) ==
    LET r == StorageTryRemove(env, st, entity)
    IN  [r EXCEPT !.env = IF env.debug /\ ~r.old.some
                          THEN Logged(r.env, "remove of a missing component")
                          ELSE r.env]

\* StorageRun::get_slot_by_idx_mut
get_slot_by_idx_mut(env, run, slot_idx) ==
    LET slot == IF slot_idx < Len(run.comps) THEN run.comps[slot_idx + 1] ELSE Empty
    IN  [slot |-> slot,
         env  |-> IF slot.full /\ DLIsCondemned(env, slot.lifetime)
                  THEN Logged(env, "fetched slot of dead entity") ELSE env]

\* Mutant of StorageGetCall: a condemned entity has no component.
StorageGetCallLiveOnly(env, st, entity) ==
    IF DLIsCondemned(env, entity.lifetime) \/ ~HasRun(st, entity.archetype)
    THEN [st |-> st, old |-> NoVal, env |-> env]
    ELSE LET s == get_slot_by_idx(env, st[entity.archetype.id], entity.slot)
         IN  [st |-> st, old |-> IntoValue(s.slot), env |-> s.env]

\* Storage::get: the value returned, the registry and the log afterwards.
StorageGetCall(env, st, entity) ==
    LET e1 == IF DLIsCondemned(env, entity.lifetime)
              THEN Logged(env, "fetch from dead entity") ELSE env
    IN  IF ~HasRun(st, entity.archetype)
        THEN [st |-> st, old |-> NoVal, env |-> e1]
        ELSE LET s == get_slot_by_idx(e1, st[entity.archetype.id], entity.slot)
             IN  [st |-> st, old |-> IntoValue(s.slot), env |-> s.env]

\* Storage::get_mut
StorageGetMut(env, st, entity) ==
    LET e1 == IF DLIsCondemned(env, entity.lifetime)
              THEN Logged(env, "fetch from dead entity") ELSE env
    IN  IF ~HasRun(st, entity.archetype)
        THEN [st |-> st, old |-> NoVal, env |-> e1]
        ELSE LET s == get_slot_by_idx_mut(e1, st[entity.archetype.id], entity.slot)
             IN  [st |-> st, old |-> IntoValue(s.slot), env |-> s.env]

\* failed_to_find_component: panic!
failed_to_find_component(env) == [env EXCEPT !.panicked = TRUE]

\* Mutant of StorageIndex: indexing through a condemned entity panics.
StorageIndexLiveOnly(env, st, entity) ==
    LET g == StorageGetCall(env, st, entity)
    IN  IF g.old.some /\ ~DLIsCondemned(env, entity.lifetime) THEN g
        ELSE [g EXCEPT !.old = NoVal, !.env = failed_to_find_component(g.env)]

\* impl Index<Entity> for Storage
StorageIndex(env, st, entity) ==
    LET g == StorageGetCall(env, st, entity)
    IN  IF g.old.some THEN g
        ELSE [g EXCEPT !.env = failed_to_find_component(g.env)]

\* impl IndexMut<Entity> for Storage
StorageIndexMut(env, st, entity) ==
    LET g == StorageGetMut(env, st, entity)
    IN  IF g.old.some THEN g
        ELSE [g EXCEPT !.env = failed_to_find_component(g.env)]

\* Storage::get: the value returned.
StorageGet(st, entity) == StorageGetCall(Env, st, entity).old

\* Storage::get_run
StorageGetRun(st, archetype) ==
    IF HasRun(st, archetype) THEN <<st[archetype.id]>> ELSE <<>>

\* A call op(entity k, v) of the Storage, with result r; v = 0 for a call that
\* takes no value.
StorageCall(op, k, v, r) ==
    /\ storage' = r.st
    /\ Commit(r.env)
    /\ last' = [op |-> op, arch |-> 0, ent |-> k, val |-> v,
                ret |-> IF r.old.some THEN r.old.val ELSE 0]
    /\ UNCHANGED <<debug_assertions, sideVars, dependents, storageB, ids, archs, ents, handles, spawnedBy,
                   despawned, freed, destroyed, scenario>>

\* Mutant of Despawn: the entity's component is removed with it.
DespawnDetaching(a, k) ==
    /\ DespawnCall(a, k)
    /\ storage' = IF k \in 1..Len(ents)
                  THEN StorageTryRemove(Env, storage, ents[k]).st ELSE storage

\* Archetype::despawn(ents[k]) on Archetype object a.  The archetype knows no
\* Storage: the components of the entity stay where they are.
Despawn(a, k) == DespawnCall(a, k) /\ UNCHANGED storage

Insert(k, v) ==
    /\ ~panicked
    /\ k \in 1..Len(ents)
    /\ StorageCall("insert", k, v, StorageInsert(Env, storage, ents[k], v))

Add(k, v) ==
    /\ ~panicked
    /\ k \in 1..Len(ents)
    /\ StorageCall("add", k, v, StorageAdd(Env, storage, ents[k], v))

TryRemove(k) ==
    /\ ~panicked
    /\ k \in 1..Len(ents)
    /\ StorageCall("try_remove", k, 0, StorageTryRemove(Env, storage, ents[k]))

Remove(k) ==
    /\ ~panicked
    /\ k \in 1..Len(ents)
    /\ StorageCall("remove", k, 0, StorageRemove(Env, storage, ents[k]))

\* A call op(entity k, v) of the second Storage, with result r.
StorageCallB(op, k, v, r) ==
    /\ storageB' = r.st
    /\ Commit(r.env)
    /\ last' = [op |-> op, arch |-> 0, ent |-> k, val |-> v,
                ret |-> IF r.old.some THEN r.old.val ELSE 0]
    /\ UNCHANGED <<debug_assertions, sideVars, dependents, storage, ids, archs, ents, handles,
                   spawnedBy, despawned, freed, destroyed, scenario>>

InsertB(k, v) ==
    /\ ~panicked
    /\ k \in 1..Len(ents)
    /\ StorageCallB("B.insert", k, v, StorageInsert(Env, storageB, ents[k], v))

AddB(k, v) ==
    /\ ~panicked
    /\ k \in 1..Len(ents)
    /\ StorageCallB("B.add", k, v, StorageAdd(Env, storageB, ents[k], v))

TryRemoveB(k) ==
    /\ ~panicked
    /\ k \in 1..Len(ents)
    /\ StorageCallB("B.try_remove", k, 0, StorageTryRemove(Env, storageB, ents[k]))

RemoveB(k) ==
    /\ ~panicked
    /\ k \in 1..Len(ents)
    /\ StorageCallB("B.remove", k, 0, StorageRemove(Env, storageB, ents[k]))

\* Storage::get_or_create_run with the id of Archetype object a, which the
\* caller may have kept beyond the archetype's drop.
GetOrCreateRun(a) ==
    /\ ~panicked
    /\ a \in 1..Len(archs)
    /\ LET g == get_or_create_run(Env, storage, ArchetypeIdOf(archs[a]))
       IN  /\ storage' = g.st
           /\ Commit(g.env)
           /\ last' = [op |-> "get_or_create_run", arch |-> a, ent |-> 0, val |-> 0,
                       ret |-> 0]
    /\ UNCHANGED <<debug_assertions, sideVars, dependents, storageB, ids, archs, ents, handles, spawnedBy,
                   despawned, freed, destroyed, scenario>>

Get(k) ==
    /\ ~panicked
    /\ k \in 1..Len(ents)
    /\ StorageCall("get", k, 0, StorageGetCall(Env, storage, ents[k]))

GetMut(k) ==
    /\ ~panicked
    /\ k \in 1..Len(ents)
    /\ StorageCall("get_mut", k, 0, StorageGetMut(Env, storage, ents[k]))

Index(k) ==
    /\ ~panicked
    /\ k \in 1..Len(ents)
    /\ StorageCall("index", k, 0, StorageIndex(Env, storage, ents[k]))

IndexMut(k) ==
    /\ ~panicked
    /\ k \in 1..Len(ents)
    /\ StorageCall("index_mut", k, 0, StorageIndexMut(Env, storage, ents[k]))

\* ------------------------------------------- the registry used on its own

\* A call op on handle h of the registry, leaving env.
LifetimeCall(op, h, ok, env) ==
    /\ Commit(env)
    /\ last' = [op |-> op, arch |-> 0, ent |-> h, val |-> 0,
                ret |-> IF ok THEN 1 ELSE 0]
    /\ UNCHANGED <<debug_assertions, sideVars, dependents, storageB, ids, archs, ents, storage, spawnedBy,
                   despawned, freed, scenario>>

\* Lifetime::new
LtNew ==
    /\ ~panicked
    /\ Len(handles) < MaxHandles
    /\ \E s \in AllocChoices(Env) :
          LET r == LifetimeNew(Env, s)
          IN  /\ handles' = Append(handles, r.lt)
              /\ LifetimeCall("Lifetime::new", Len(handles) + 1, TRUE, r.env)
    /\ UNCHANGED destroyed

\* Lifetime::try_destroy on handle h
LtTryDestroy(h) ==
    /\ ~panicked
    /\ h \in 1..Len(handles)
    /\ LET r == try_destroy(Env, handles[h])
       IN  /\ destroyed' = IF r.ok THEN destroyed \cup {h} ELSE destroyed
           /\ LifetimeCall("try_destroy", h, r.ok, r.env)
    /\ UNCHANGED handles

\* Lifetime::destroy on handle h
LtDestroy(h) ==
    /\ ~panicked
    /\ h \in 1..Len(handles)
    /\ destroyed' = IF try_destroy(Env, handles[h]).ok
                    THEN destroyed \cup {h} ELSE destroyed
    /\ LifetimeCall("destroy", h, try_destroy(Env, handles[h]).ok,
                    destroy(Env, handles[h]))
    /\ UNCHANGED handles

\* Lifetime::try_inc_dep on handle h
LtTryIncDep(h) ==
    /\ ~panicked
    /\ h \in 1..Len(handles)
    /\ is_alive(Env, handles[h]) => slotData[handles[h].slot].deps < MaxDeps
    /\ LET r == try_inc_dep(Env, handles[h])
       IN  LifetimeCall("try_inc_dep", h, r.ok, r.env)
    /\ UNCHANGED <<handles, destroyed>>

\* Lifetime::inc_dep on handle h
LtIncDep(h) ==
    /\ ~panicked
    /\ h \in 1..Len(handles)
    /\ is_alive(Env, handles[h]) => slotData[handles[h].slot].deps < MaxDeps
    /\ LifetimeCall("inc_dep", h, try_inc_dep(Env, handles[h]).ok,
                    inc_dep(Env, handles[h]))
    /\ UNCHANGED <<handles, destroyed>>

\* Lifetime::dec_dep on handle h
LtDecDep(h) ==
    /\ ~panicked
    /\ h \in 1..Len(handles)
    /\ LifetimeCall("dec_dep", h, TRUE, dec_dep(Env, handles[h]))
    /\ UNCHANGED <<handles, destroyed>>

\* ------------------------------------------- the registry under racing threads

\* A thread that is in no registry call.
Idle == [pc |-> "idle", op |-> "none", h |-> 0, s |-> 0]

\* A step of thread t in a call op on handle h: the registry afterwards, and the
\* call's result when the step returns; op is "alloc_slot" or "unlock" for a
\* step inside Lifetime::new or try_destroy after which the call goes on.
RaceStep(t, op, h, ret, env) ==
    /\ Commit(env)
    /\ last' = [op |-> op, arch |-> t, ent |-> h, val |-> 0, ret |-> ret]
    /\ UNCHANGED <<debug_assertions, dependents, storage, storageB, ids, archs, ents,
                   spawnedBy, despawned, freed, scenario, twin, weakVars, queueVars>>

\* Lifetime::new, first half: db::alloc_slot.
RaceNewAlloc(t) ==
    /\ ~panicked
    /\ thr[t].pc = "idle"
    /\ Len(handles) + Cardinality({u \in Threads : thr[u].pc = "read"}) < MaxRaceHandles
    /\ \E s \in AllocChoices(Env) :
          /\ thr' = [thr EXCEPT ![t] = [pc |-> "read", op |-> "Lifetime::new",
                                        h |-> 0, s |-> s]]
          /\ RaceStep(t, "alloc_slot", 0, 0, alloc_slot(Env, s))
    /\ UNCHANGED <<handles, destroyed, freeLog, counted>>

\* Lifetime::new, second half: the generation is read under the cell's mutex.
RaceNewRead(t) ==
    /\ ~panicked
    /\ thr[t].pc = "read"
    /\ handles' = Append(handles, [slot |-> thr[t].s, gen |-> slotData[thr[t].s].gen])
    /\ counted' = Append(counted, 0)
    /\ thr' = [thr EXCEPT ![t] = Idle]
    /\ RaceStep(t, "Lifetime::new", Len(handles) + 1, 1, Env)
    /\ UNCHANGED <<destroyed, freeLog>>

\* Lifetime::is_alive on handle h, under the cell's mutex.
RaceIsAlive(t, h) ==
    /\ ~panicked
    /\ thr[t].pc = "idle"
    /\ h \in 1..Len(handles)
    /\ RaceStep(t, "is_alive", h, IF is_alive(Env, handles[h]) THEN 1 ELSE 0, Env)
    /\ UNCHANGED <<handles, destroyed, thr, freeLog, counted>>

\* Lifetime::try_inc_dep on handle h, under the cell's mutex.
RaceTryIncDep(t, h) ==
    /\ ~panicked
    /\ thr[t].pc = "idle"
    /\ h \in 1..Len(handles)
    /\ is_alive(Env, handles[h]) => slotData[handles[h].slot].deps < MaxDeps
    /\ LET r == try_inc_dep(Env, handles[h])
       IN  /\ counted' = IF r.ok /\ ~r.env.panicked
                         THEN [counted EXCEPT ![h] = @ + 1] ELSE counted
           /\ RaceStep(t, "try_inc_dep", h, IF r.ok THEN 1 ELSE 0, r.env)
    /\ UNCHANGED <<handles, destroyed, thr, freeLog>>

\* Lifetime::dec_dep on handle h, under the cell's mutex.
RaceDecDep(t, h) ==
    /\ ~panicked
    /\ thr[t].pc = "idle"
    /\ h \in 1..Len(handles)
    /\ LET env == dec_dep(Env, handles[h])
       IN  /\ counted' = IF h \notin destroyed /\ ~env.panicked
                         THEN [counted EXCEPT ![h] = @ - 1] ELSE counted
           /\ RaceStep(t, "dec_dep", h, 1, env)
    /\ UNCHANGED <<handles, destroyed, thr, freeLog>>

\* Lifetime::try_destroy or Lifetime::destroy (op) on handle h, up to the
\* release of the cell's mutex. The call returns here, destroy with its error
\* logged, unless db::free_slot is still to come.
RaceDestroyLocked(t, op, h) ==
    /\ ~panicked
    /\ thr[t].pc = "idle"
    /\ h \in 1..Len(handles)
    /\ LET r == try_destroy_locked(Env, handles[h])
       IN  /\ destroyed' = IF r.ok THEN destroyed \cup {h} ELSE destroyed
           /\ thr' = IF r.release
                     THEN [thr EXCEPT ![t] = [pc |-> "free", op |-> op,
                                              h |-> h, s |-> handles[h].slot]]
                     ELSE thr
           /\ RaceStep(t, IF r.release THEN "unlock" ELSE op, h,
                       IF r.ok THEN 1 ELSE 0,
                       IF op = "destroy" /\ ~r.ok
                       THEN Logged(r.env, "destroy of dead lifetime") ELSE r.env)
    /\ UNCHANGED <<handles, freeLog, counted>>

\* Lifetime::try_destroy, the rest: db::free_slot, and the call returns true.
RaceDestroyFree(t) ==
    /\ ~panicked
    /\ thr[t].pc = "free"
    /\ freeLog' = Append(freeLog, thr[t].h)
    /\ thr' = [thr EXCEPT ![t] = Idle]
    /\ RaceStep(t, thr[t].op, thr[t].h, 1, free_slot(Env, thr[t].s))
    /\ UNCHANGED <<handles, destroyed, counted>>

\* ------------------------------------------- the two builds, side by side

\* log::warn! messages; every other message is a log::error!.
Warnings == {"add of an existing component", "remove of a missing component"}

\* A whole program after start-up, built with debug_assertions or without:
\* its registry, its archetypes, the Entity handles spawn returned, one Storage,
\* the last call's result, whether a log::error! was logged, whether it panicked.
ProgramNew(debug) ==
    [debug |-> debug,
     data |-> [s \in LSlotIds |-> [gen |-> 1, deps |-> 0]], created |-> 0, pool |-> {},
     ids |-> {}, archs |-> <<>>, ents |-> <<>>,
     storage |-> [i \in {} |-> StorageRunNew([lifetime |-> Stub, id |-> i])],
     ret |-> 0, errors |-> FALSE, panicked |-> FALSE]

\* The registry of program p at the start of a call.
ProgramEnv(p) ==
    [data |-> p.data, created |-> p.created, pool |-> p.pool,
     log |-> {}, panicked |-> FALSE, debug |-> p.debug]

\* Program p after a call that leaves the registry env and returns ret.
ProgramAfter(p, env, ret) ==
    [p EXCEPT !.data = env.data, !.created = env.created, !.pool = env.pool,
              !.ret = ret,
              !.errors = @ \/ (env.log \ Warnings # {}),
              !.panicked = env.panicked]

\* Archetype::id in program p: DebugLifetime::from_lifetime of its build.
ProgramArchetypeId(p, a) ==
    [lifetime |-> IF p.debug THEN p.archs[a].lifetime ELSE Stub, id |-> p.archs[a].id]

\* Archetype::new in program p, alloc_id drawing id and Lifetime::new cell s.
ProgramArchetypeNew(p, id, s) ==
    LET r == LifetimeNew(ProgramEnv(p), s)
    IN  [ProgramAfter(p, r.env, id) EXCEPT
            !.ids = @ \cup {id},
            !.archs = Append(@, [id |-> id, lifetime |-> r.lt,
                                 slots |-> FreeListDefault, dropped |-> FALSE])]

\* Archetype::spawn on archetype a of program p, DebugLifetime::new drawing s.
ProgramSpawn(p, a, s) ==
    LET n == DLNew(ProgramEnv(p), s)
        r == FreeListAlloc(n.env, p.archs[a].slots, n.lt)
        e == [lifetime |-> n.lt, archetype |-> ProgramArchetypeId(p, a),
              slot |-> r.slot]
    IN  [ProgramAfter(p, r.env, r.slot) EXCEPT
            !.archs[a].slots = r.fl,
            !.ents = IF r.env.panicked THEN @ ELSE Append(@, e)]

\* Archetype::despawn of the k-th Entity on archetype a of program p.
ProgramDespawn(p, a, k) ==
    LET r == ArchetypeDespawn(ProgramEnv(p), p.archs[a], p.ents[k])
    IN  [ProgramAfter(p, r.env, 0) EXCEPT !.archs[a].slots = r.fl]

\* A Storage call of program p with result r.
ProgramStorage(p, r) ==
    [ProgramAfter(p, r.env, IF r.old.some THEN r.old.val ELSE 0) EXCEPT
        !.storage = r.st]

\* Storage::insert, add, get, try_remove on the k-th Entity of program p.
ProgramInsert(p, k, v) ==
    ProgramStorage(p, StorageInsert(ProgramEnv(p), p.storage, p.ents[k], v))
ProgramAdd(p, k, v) ==
    ProgramStorage(p, StorageAdd(ProgramEnv(p), p.storage, p.ents[k], v))
ProgramGet(p, k) ==
    ProgramStorage(p, StorageGetCall(ProgramEnv(p), p.storage, p.ents[k]))
ProgramTryRemove(p, k) ==
    ProgramStorage(p, StorageTryRemove(ProgramEnv(p), p.storage, p.ents[k]))

\* Both programs make the call op, with the results d and r.
TwinCall(op, a, k, v, d, r) ==
    /\ twin' = [d |-> d, r |-> r]
    /\ last' = [op |-> op, arch |-> a, ent |-> k, val |-> v, ret |-> d.ret]
    /\ UNCHANGED <<debug_assertions, slotData, created, pool, log, panicked, ids,
                   archs, ents, storage, storageB, handles, dependents, raceVars,
                   weakVars, queueVars,
                   spawnedBy, despawned, freed, destroyed, scenario>>

\* Neither program has panicked, and the k-th Entity exists in both.
TwinRuns == ~twin.d.panicked /\ ~twin.r.panicked
TwinEnts == 1..(IF Len(twin.d.ents) < Len(twin.r.ents)
                THEN Len(twin.d.ents) ELSE Len(twin.r.ents))

\* Archetype::new in both programs; the random generator draws the same id.
TwinArchetypeNew ==
    /\ TwinRuns
    /\ Len(twin.d.archs) < MaxTwinArch
    /\ \E id \in RandIdGenAlloc(twin.d.ids) \cap RandIdGenAlloc(twin.r.ids) :
       \E sd \in AllocChoices(ProgramEnv(twin.d)) :
       \E sr \in AllocChoices(ProgramEnv(twin.r)) :
          TwinCall("new", Len(twin.d.archs) + 1, 0, 0,
                   ProgramArchetypeNew(twin.d, id, sd),
                   ProgramArchetypeNew(twin.r, id, sr))

\* Archetype::spawn on archetype a in both programs.
TwinSpawn(a) ==
    /\ TwinRuns
    /\ a \in 1..Len(twin.d.archs)
    /\ Len(twin.d.ents) < MaxTwinEnts
    /\ \E sd \in DLChoices(ProgramEnv(twin.d)) :
       \E sr \in DLChoices(ProgramEnv(twin.r)) :
          TwinCall("spawn", a, Len(twin.d.ents) + 1, 0,
                   ProgramSpawn(twin.d, a, sd), ProgramSpawn(twin.r, a, sr))

\* Archetype::despawn of the k-th Entity on archetype a in both programs.
TwinDespawn(a, k) ==
    /\ TwinRuns
    /\ a \in 1..Len(twin.d.archs)
    /\ k \in TwinEnts
    /\ TwinCall("despawn", a, k, 0,
                ProgramDespawn(twin.d, a, k), ProgramDespawn(twin.r, a, k))

\* Storage::insert, add, get, try_remove of the k-th Entity in both programs.
TwinInsert(k, v) ==
    /\ TwinRuns
    /\ k \in TwinEnts
    /\ TwinCall("insert", 0, k, v,
                ProgramInsert(twin.d, k, v), ProgramInsert(twin.r, k, v))

TwinAdd(k, v) ==
    /\ TwinRuns
    /\ k \in TwinEnts
    /\ TwinCall("add", 0, k, v, ProgramAdd(twin.d, k, v), ProgramAdd(twin.r, k, v))

TwinGet(k) ==
    /\ TwinRuns
    /\ k \in TwinEnts
    /\ TwinCall("get", 0, k, 0, ProgramGet(twin.d, k), ProgramGet(twin.r, k))

TwinTryRemove(k) ==
    /\ TwinRuns
    /\ k \in TwinEnts
    /\ TwinCall("try_remove", 0, k, 0,
                ProgramTryRemove(twin.d, k), ProgramTryRemove(twin.r, k))

\* -------------------------------------------------------- WeakArchetypeMap

\* WeakArchetypeMap::new: an empty HashMap, which has allocated nothing.
WeakArchetypeMapNew == [map |-> [i \in {} |-> [lifetime |-> Stub, value |-> 0]], cap |-> 0]

\* What a WeakArchetypeMap call returns: an Option, and for iter the items.
NoReturn == [old |-> NoVal, items |-> {}]

\* Archetype::weak_id of Archetype object a; the id is Copy and outlives a.
WeakIdOf(a) == [lifetime |-> archs[a].lifetime, id |-> archs[a].id]

\* Mutant of filter_old_entries: the stored lifetime is not compared.
filter_old_entries_any(latest, entry) == SomeVal(entry.value)

\* WeakArchetypeMap::filter_old_entries
filter_old_entries(latest, entry) ==
    IF LifetimeEq(latest, entry.lifetime) THEN SomeVal(entry.value) ELSE NoVal

\* Mutant of WeakGc: every entry is retained.
WeakGcKeep(env, m) == m

\* WeakArchetypeMap::gc: retain the entries whose lifetime is alive.
WeakGc(env, m) ==
    [m EXCEPT !.map = [i \in {j \in DOMAIN m.map : is_alive(env, m.map[j].lifetime)}
                         |-> m.map[i]]]

\* The capacities HashMap::reserve(1) may leave: room for one more at least.
ReserveChoices(m) == (Cardinality(DOMAIN m.map) + 1)..MaxWeakCap

\* Mutant of WeakInsert: the key's lifetime is not checked.
WeakInsertUnchecked(env, m, id, value, c) ==
    [m   |-> [m EXCEPT !.map = [i \in DOMAIN m.map \cup {id.id} |->
                                  IF i = id.id
                                  THEN [lifetime |-> id.lifetime, value |-> value]
                                  ELSE m.map[i]],
                       !.cap = IF Cardinality(DOMAIN m.map) >= m.cap THEN c ELSE @],
     old |-> IF id.id \in DOMAIN m.map
             THEN filter_old_entries(id.lifetime, m.map[id.id]) ELSE NoVal]

\* WeakArchetypeMap::insert, reserve leaving capacity c when it is called.
WeakInsert(env, m, id, value, c) ==
    IF ~is_alive(env, id.lifetime)
    THEN [m |-> m, old |-> NoVal]
    ELSE LET g  == WeakGc(env, m)
             m1 == IF Cardinality(DOMAIN m.map) >= m.cap
                   THEN IF DOMAIN g.map = DOMAIN m.map THEN [g EXCEPT !.cap = c] ELSE g
                   ELSE m
         IN  [m   |-> [m1 EXCEPT !.map = [i \in DOMAIN m1.map \cup {id.id} |->
                                           IF i = id.id
                                           THEN [lifetime |-> id.lifetime,
                                                 value |-> value]
                                           ELSE m1.map[i]]],
              old |-> IF id.id \in DOMAIN m1.map
                      THEN filter_old_entries(id.lifetime, m1.map[id.id])
                      ELSE NoVal]

\* WeakArchetypeMap::add: insert, and a warning in a debug build.
WeakAdd(env, m, id, value, c) ==
    LET r == WeakInsert(env, m, id, value, c)
    IN  [m |-> r.m, old |-> r.old,
         env |-> IF env.debug /\ r.old.some
                 THEN Logged(env, "add of an existing component") ELSE env]

\* WeakArchetypeMap::try_remove
WeakTryRemove(env, m, id) ==
    IF ~is_alive(env, id.lifetime)
    THEN [m |-> m, old |-> NoVal]
    ELSE IF id.id \notin DOMAIN m.map
         THEN [m |-> m, old |-> NoVal]
         ELSE [m   |-> [m EXCEPT !.map = [i \in DOMAIN m.map \ {id.id} |-> m.map[i]]],
               old |-> filter_old_entries(id.lifetime, m.map[id.id])]

\* Mutant of WeakGet: the stored lifetime is not compared with the key's.
WeakGetAnyGeneration(env, m, id) ==
    IF ~is_alive(env, id.lifetime) \/ id.id \notin DOMAIN m.map
    THEN NoVal
    ELSE SomeVal(m.map[id.id].value)

\* WeakArchetypeMap::get and get_mut
WeakGet(env, m, id) ==
    IF ~is_alive(env, id.lifetime) \/ id.id \notin DOMAIN m.map
    THEN NoVal
    ELSE IF LifetimeEq(m.map[id.id].lifetime, id.lifetime)
         THEN SomeVal(m.map[id.id].value)
         ELSE NoVal

\* WeakArchetypeMap::iter: the items of the entries whose lifetime is alive.
WeakIter(env, m) ==
    {[id |-> [lifetime |-> m.map[i].lifetime, id |-> i], value |-> m.map[i].value] :
        i \in {j \in DOMAIN m.map : is_alive(env, m.map[j].lifetime)}}

\* A call op of the WeakArchetypeMap with the weak id of Archetype object a
\* (0: none), leaving the map m and returning ret.
WeakCall(op, a, v, m, ret, env) ==
    /\ wmap' = m
    /\ wret' = ret
    /\ Commit(env)
    /\ last' = [op |-> op, arch |-> a, ent |-> 0, val |-> v,
                ret |-> IF ret.old.some THEN ret.old.val ELSE 0]
    /\ UNCHANGED <<debug_assertions, ids, archs, ents, storage, storageB, handles,
                   dependents, raceVars, twin, queueVars, spawnedBy, despawned, freed,
                   destroyed, scenario>>

\* WeakArchetypeMap::insert(archs[a].weak_id(), v)
WInsert(a, v) ==
    /\ ~panicked
    /\ a \in 1..Len(archs)
    /\ \E c \in ReserveChoices(wmap) :
          LET r == WeakInsert(Env, wmap, WeakIdOf(a), v, c)
          IN  WeakCall("Weak.insert", a, v, r.m, [old |-> r.old, items |-> {}], Env)
    /\ wstored' = IF is_alive(Env, archs[a].lifetime)
                  THEN [wstored EXCEPT ![a] = v] ELSE wstored

\* WeakArchetypeMap::add(archs[a].weak_id(), v)
WAdd(a, v) ==
    /\ ~panicked
    /\ a \in 1..Len(archs)
    /\ \E c \in ReserveChoices(wmap) :
          LET r == WeakAdd(Env, wmap, WeakIdOf(a), v, c)
          IN  WeakCall("Weak.add", a, v, r.m, [old |-> r.old, items |-> {}], r.env)
    /\ wstored' = IF is_alive(Env, archs[a].lifetime)
                  THEN [wstored EXCEPT ![a] = v] ELSE wstored

\* WeakArchetypeMap::try_remove(archs[a].weak_id())
WTryRemove(a) ==
    /\ ~panicked
    /\ a \in 1..Len(archs)
    /\ LET r == WeakTryRemove(Env, wmap, WeakIdOf(a))
       IN  WeakCall("Weak.try_remove", a, 0, r.m, [old |-> r.old, items |-> {}], Env)
    /\ wstored' = IF is_alive(Env, archs[a].lifetime)
                  THEN [wstored EXCEPT ![a] = 0] ELSE wstored

\* WeakArchetypeMap::get(archs[a].weak_id())
WGet(a) ==
    /\ ~panicked
    /\ a \in 1..Len(archs)
    /\ WeakCall("Weak.get", a, 0, wmap,
                [old |-> WeakGet(Env, wmap, WeakIdOf(a)), items |-> {}], Env)
    /\ UNCHANGED wstored

\* WeakArchetypeMap::iter, collected
WIter ==
    /\ ~panicked
    /\ WeakCall("Weak.iter", 0, 0, wmap,
                [old |-> NoVal, items |-> WeakIter(Env, wmap)], Env)
    /\ UNCHANGED wstored

\* WeakArchetypeMap::gc
WGc ==
    /\ ~panicked
    /\ WeakCall("Weak.gc", 0, 0, WeakGc(Env, wmap), NoReturn, Env)
    /\ UNCHANGED wstored

\* ----------------------------------------------------------------- TaskQueue

\* TaskQueue::new
TaskQueueNew == [task_stack |-> <<>>, tasks_to_add |-> <<>>]

\* TaskQueue::push
TaskQueuePush(q, task) == [q EXCEPT !.tasks_to_add = Append(@, task)]

\* while let Some(to_add) = tasks_to_add.pop() { task_stack.push(to_add) }
RECURSIVE MoveTasks(_, _)
MoveTasks(task_stack, tasks_to_add) ==
    IF tasks_to_add = <<>> THEN task_stack
    ELSE MoveTasks(Append(task_stack, tasks_to_add[Len(tasks_to_add)]),
                   SubSeq(tasks_to_add, 1, Len(tasks_to_add) - 1))

\* Mutant of TaskQueueNextTask: the added tasks are moved without the flip.
TaskQueueNextTaskUnflipped(q) ==
    LET stack == q.task_stack \o q.tasks_to_add
    IN  IF stack = <<>>
        THEN [q |-> TaskQueueNew, task |-> 0]
        ELSE [q    |-> [task_stack |-> SubSeq(stack, 1, Len(stack) - 1),
                        tasks_to_add |-> <<>>],
              task |-> stack[Len(stack)]]

\* TaskQueue::next_task: the queue afterwards and the task returned (0: None).
TaskQueueNextTask(q) ==
    LET stack == MoveTasks(q.task_stack, q.tasks_to_add)
    IN  IF stack = <<>>
        THEN [q |-> [task_stack |-> <<>>, tasks_to_add |-> <<>>], task |-> 0]
        ELSE [q    |-> [task_stack |-> SubSeq(stack, 1, Len(stack) - 1),
                        tasks_to_add |-> <<>>],
              task |-> stack[Len(stack)]]

\* TaskQueue::clear_capacities
clear_capacities(q) == [task_stack |-> <<>>, tasks_to_add |-> <<>>]

\* The tasks pushed and not returned yet.
Pending == (1..Len(pushCtx)) \ {returned[i] : i \in 1..Len(returned)}

\* A call op of the TaskQueue about task t, leaving the queue q.
QueueCall(op, t, q) ==
    /\ task_queue' = q
    /\ last' = [op |-> op, arch |-> 0, ent |-> t, val |-> 0, ret |-> t]
    /\ UNCHANGED <<debug_assertions, slotData, created, pool, log, panicked, ids,
                   archs, ents, storage, storageB, handles, dependents, raceVars,
                   twin, weakVars, spawnedBy, despawned, freed, destroyed, scenario>>

\* Universe::queue_task: TaskQueue::push of a new task, the next in number.
QPush ==
    /\ Len(pushCtx) < MaxTasks
    /\ QueueCall("push", Len(pushCtx) + 1,
                 TaskQueuePush(task_queue, Len(pushCtx) + 1))
    /\ pushCtx' = Append(pushCtx, [batch |-> fresh, older |-> Pending \ fresh])
    /\ fresh' = fresh \cup {Len(pushCtx) + 1}
    /\ UNCHANGED returned

\* An iteration of the loop of Universe::dispatch_tasks_with: next_task.
QNextTask ==
    /\ LET r == TaskQueueNextTask(task_queue)
       IN  /\ QueueCall("next_task", r.task, r.q)
           /\ returned' = IF r.task # 0 THEN Append(returned, r.task) ELSE returned
    /\ fresh' = {}
    /\ UNCHANGED pushCtx

\* The end of Universe::dispatch_tasks_with: next_task has returned None and
\* the loop is left, clear_capacities.
QClearCapacities ==
    /\ last.op = "next_task"
    /\ last.ret = 0
    /\ QueueCall("clear_capacities", 0, clear_capacities(task_queue))
    /\ UNCHANGED <<pushCtx, returned, fresh>>

\* ----------------------------------------------- Dependent<Lifetime> wrappers

\* Dependent::new
DependentNew(env, lt) == inc_dep(env, lt)

\* Mutant of DependentClone: the clone shares the count of the original.
DependentCloneShared(env, lt) == env

\* impl Clone for Dependent, on a wrapper of lt
DependentClone(env, lt) == DependentNew(env, lt)

\* impl Drop for Dependent, on a wrapper of lt
DependentDrop(env, lt) == dec_dep(env, lt)

\* A call op on Dependent wrapper d, leaving env.
DependentCall(op, d, env) ==
    /\ Commit(env)
    /\ last' = [op |-> op, arch |-> 0, ent |-> d, val |-> 0, ret |-> 0]
    /\ UNCHANGED <<debug_assertions, sideVars, ids, archs, ents, storage, storageB, handles,
                   spawnedBy, despawned, freed, destroyed, scenario>>

\* A wrapper is there once its constructor has returned.
Constructed(env, lt) ==
    IF env.panicked THEN dependents ELSE Append(dependents, [lt |-> lt, live |-> TRUE])

\* Dependent::new(handles[h]); Dependent::from is the same.
DepNew(h) ==
    /\ ~panicked
    /\ h \in 1..Len(handles)
    /\ Len(dependents) < MaxDependents
    /\ LET env == DependentNew(Env, handles[h])
       IN  /\ dependents' = Constructed(env, handles[h])
           /\ DependentCall("Dependent::new", Len(dependents) + 1, env)

\* dependents[d].clone()
DepClone(d) ==
    /\ ~panicked
    /\ d \in 1..Len(dependents)
    /\ dependents[d].live
    /\ Len(dependents) < MaxDependents
    /\ LET env == DependentClone(Env, dependents[d].lt)
       IN  /\ dependents' = Constructed(env, dependents[d].lt)
           /\ DependentCall("Dependent::clone", Len(dependents) + 1, env)

\* drop(dependents[d])
DepDrop(d) ==
    /\ ~panicked
    /\ d \in 1..Len(dependents)
    /\ dependents[d].live
    /\ dependents' = [dependents EXCEPT ![d].live = FALSE]
    /\ DependentCall("Dependent::drop", d, DependentDrop(Env, dependents[d].lt))

\* dependents[d].into_inner(): the wrapper is dropped, its lifetime returned.
DepIntoInner(d) ==
    /\ ~panicked
    /\ d \in 1..Len(dependents)
    /\ dependents[d].live
    /\ dependents' = [dependents EXCEPT ![d].live = FALSE]
    /\ DependentCall("Dependent::into_inner", d, DependentDrop(Env, dependents[d].lt))

\* ----------------------------------------------------------- specification

InitCommon ==
    /\ slotData = [s \in LSlotIds |-> [gen |-> 1, deps |-> 0]]
    /\ created = 0
    /\ pool = {}
    /\ ids = {}
    /\ archs = <<>>
    /\ ents = <<>>
    /\ storage = [i \in {} |-> StorageRunNew([lifetime |-> Stub, id |-> i])]
    /\ storageB = [i \in {} |-> StorageRunNew([lifetime |-> Stub, id |-> i])]
    /\ handles = <<>>
    /\ dependents = <<>>
    /\ thr = [t \in Threads |-> Idle]
    /\ freeLog = <<>>
    /\ counted = <<>>
    /\ twin = [d |-> ProgramNew(TRUE), r |-> ProgramNew(FALSE)]
    /\ wmap = WeakArchetypeMapNew
    /\ wret = NoReturn
    /\ wstored = [a \in 1..MaxArch |-> 0]
    /\ task_queue = TaskQueueNew
    /\ pushCtx = <<>>
    /\ returned = <<>>
    /\ fresh = {}
    /\ log = {}
    /\ panicked = FALSE
    /\ last = NoCall
    /\ spawnedBy = <<>>
    /\ despawned = {}
    /\ freed = <<>>
    /\ destroyed = {}
    /\ scenario = 0

\* Either build configuration.
Init == debug_assertions \in BOOLEAN /\ InitCommon

\* The Lifetime registry does not depend on the build configuration.
InitLifetime == debug_assertions = TRUE /\ InitCommon

\* Archetypes, entities and one Storage.
Next ==
    \/ Len(archs) + Len(ents) < MaxStorageObjects /\ ArchetypeNew
    \/ \E a \in 1..MaxArch :
          /\ Len(archs) + Len(ents) < MaxStorageObjects
          /\ Len(ents) < MaxStorageEnts
          /\ Spawn(a)
    \/ \E a \in 1..MaxArch : \E k \in 1..MaxEnts : Despawn(a, k)
    \/ \E a \in 1..MaxArch : ArchetypeDrop(a)
    \/ \E k \in 1..MaxEnts : \E v \in Vals : Insert(k, v)
    \/ \E k \in 1..MaxEnts : \E v \in Vals : Add(k, v)
    \/ \E k \in 1..MaxEnts : TryRemove(k)
    \/ \E k \in 1..MaxEnts : Remove(k)

Spec == Init /\ [][Next]_vars

\* Archetypes, entities and one Storage with the operations that change it.
NextStorage ==
    \/ Len(archs) + Len(ents) < MaxStorageObjects /\ ArchetypeNew
    \/ \E a \in 1..MaxArch :
          /\ Len(archs) + Len(ents) < MaxStorageObjects
          /\ Len(ents) < MaxStorageEnts
          /\ Spawn(a)
    \/ \E a \in 1..MaxArch : \E k \in 1..MaxEnts : Despawn(a, k)
    \/ \E a \in 1..MaxArch : ArchetypeDrop(a)
    \/ \E a \in 1..MaxArch : GetOrCreateRun(a)
    \/ \E k \in 1..MaxEnts : \E v \in Vals : Insert(k, v)
    \/ \E k \in 1..MaxEnts : \E v \in Vals : Add(k, v)
    \/ \E k \in 1..MaxEnts : TryRemove(k)
    \/ \E k \in 1..MaxEnts : Remove(k)

SpecStorage == Init /\ [][NextStorage]_vars

\* Archetypes, entities and one Storage that is filled by insert and emptied by
\* try_remove, with the operations that read it.
NextAccess ==
    \/ ArchetypeNew
    \/ \E a \in 1..MaxArch : Len(ents) < MaxStorageEnts /\ Spawn(a)
    \/ \E a \in 1..MaxArch : \E k \in 1..MaxEnts : Despawn(a, k)
    \/ \E a \in 1..MaxArch : ArchetypeDrop(a)
    \/ \E k \in 1..MaxEnts : \E v \in Vals : Insert(k, v)
    \/ \E k \in 1..MaxEnts : TryRemove(k)
    \/ \E k \in 1..MaxEnts : Get(k)
    \/ \E k \in 1..MaxEnts : GetMut(k)
    \/ \E k \in 1..MaxEnts : Index(k)
    \/ \E k \in 1..MaxEnts : IndexMut(k)

SpecAccess == Init /\ [][NextAccess]_vars

\* One archetype with enough entities for a slot index above zero, and the
\* Storage run growing and shrinking under them.
NextRun ==
    \/ Len(archs) < MaxRunArch /\ ArchetypeNew
    \/ \E a \in 1..MaxRunArch : Len(ents) < MaxRunEnts /\ Spawn(a)
    \/ \E a \in 1..MaxRunArch : \E k \in 1..MaxRunEnts : Despawn(a, k)
    \/ \E k \in 1..MaxRunEnts : \E v \in Vals : Insert(k, v)
    \/ \E k \in 1..MaxRunEnts : \E v \in Vals : Add(k, v)
    \/ \E k \in 1..MaxRunEnts : TryRemove(k)
    \/ \E k \in 1..MaxRunEnts : Remove(k)

SpecRun == Init /\ [][NextRun]_vars

\* The archetype allocator alone.
NextArch ==
    \/ Len(archs) + Len(ents) < MaxArchObjects /\ ArchetypeNew
    \/ \E a \in 1..MaxArch :
          /\ Len(archs) + Len(ents) < MaxArchObjects
          /\ Len(ents) < MaxEnts
          /\ Spawn(a)
    \/ \E a \in 1..MaxArch : \E k \in 1..MaxEnts : Despawn(a, k)
    \/ \E a \in 1..MaxArch : ArchetypeDrop(a)

SpecArch == Init /\ [][NextArch]_vars

\* The Lifetime registry alone.
NextLifetime ==
    \/ LtNew
    \/ \E h \in 1..MaxHandles : LtTryDestroy(h)
    \/ \E h \in 1..MaxHandles : LtDestroy(h)
    \/ \E h \in 1..MaxHandles : LtTryIncDep(h)
    \/ \E h \in 1..MaxHandles : LtIncDep(h)
    \/ \E h \in 1..MaxHandles : LtDecDep(h)

SpecLifetime == InitLifetime /\ [][NextLifetime]_vars

\* The Lifetime registry with its dependency counters moved by Dependent
\* wrappers alone.
NextDependent ==
    \/ Len(handles) < MaxDepHandles /\ LtNew
    \/ \E h \in 1..MaxDepHandles : LtTryDestroy(h)
    \/ \E h \in 1..MaxDepHandles : LtDestroy(h)
    \/ \E h \in 1..MaxDepHandles : DepNew(h)
    \/ \E d \in 1..MaxDependents : DepClone(d)
    \/ \E d \in 1..MaxDependents : DepDrop(d)
    \/ \E d \in 1..MaxDependents : DepIntoInner(d)

SpecDependent == InitLifetime /\ [][NextDependent]_vars

\* One archetype whose entities fill the slot table.
NextExhaust ==
    \/ Len(archs) < MaxRunArch /\ ArchetypeNew
    \/ \E a \in 1..MaxRunArch : Len(ents) < MaxExhaustEnts /\ Spawn(a)
    \/ \E a \in 1..MaxRunArch : \E k \in 1..MaxExhaustDespawns : Despawn(a, k)

SpecExhaust == Init /\ [][NextExhaust]_vars

\* Archetypes that are not dropped, and two Storages over their entities.
NextStorages ==
    \/ Len(archs) + Len(ents) < MaxStorageObjects /\ ArchetypeNew
    \/ \E a \in 1..MaxArch :
          /\ Len(archs) + Len(ents) < MaxStorageObjects
          /\ Len(ents) < MaxStorageEnts
          /\ Spawn(a)
    \/ \E a \in 1..MaxArch : \E k \in 1..MaxEnts : Despawn(a, k)
    \/ \E k \in 1..MaxEnts : \E v \in Vals : Insert(k, v)
    \/ \E k \in 1..MaxEnts : \E v \in Vals : Add(k, v)
    \/ \E k \in 1..MaxEnts : TryRemove(k)
    \/ \E k \in 1..MaxEnts : Remove(k)
    \/ \E k \in 1..MaxEnts : \E v \in Vals : InsertB(k, v)
    \/ \E k \in 1..MaxEnts : \E v \in Vals : AddB(k, v)
    \/ \E k \in 1..MaxEnts : TryRemoveB(k)
    \/ \E k \in 1..MaxEnts : RemoveB(k)

SpecStorages == Init /\ [][NextStorages]_vars

\* Archetypes that keep their entities, with slot indices above zero, and one
\* Storage.
NextLocal ==
    \/ ArchetypeNew
    \/ \E a \in 1..MaxArch : Len(ents) < MaxLocalEnts /\ Spawn(a)
    \/ \E k \in 1..MaxLocalEnts : \E v \in Vals : Insert(k, v)
    \/ \E k \in 1..MaxLocalEnts : \E v \in Vals : Add(k, v)
    \/ \E k \in 1..MaxLocalEnts : TryRemove(k)
    \/ \E k \in 1..MaxLocalEnts : Remove(k)

SpecLocal == Init /\ [][NextLocal]_vars

\* The Lifetime registry called by threads that interleave at the cell's mutex
\* and at the pool.
NextRace ==
    \/ \E t \in Threads : RaceNewAlloc(t)
    \/ \E t \in Threads : RaceNewRead(t)
    \/ \E t \in Threads : \E h \in 1..MaxRaceHandles : RaceIsAlive(t, h)
    \/ \E t \in Threads : \E h \in 1..MaxRaceHandles : RaceTryIncDep(t, h)
    \/ \E t \in Threads : \E h \in 1..MaxRaceHandles : RaceDecDep(t, h)
    \/ \E t \in Threads : \E h \in 1..MaxRaceHandles :
          \E op \in {"try_destroy", "destroy"} : RaceDestroyLocked(t, op, h)
    \/ \E t \in Threads : RaceDestroyFree(t)

SpecRace == InitLifetime /\ [][NextRace]_vars

\* The TaskQueue of a Universe: tasks are queued and dispatched.
NextQueue ==
    \/ QPush
    \/ QNextTask
    \/ QClearCapacities

SpecQueue == InitLifetime /\ [][NextQueue]_vars

\* Universe::dispatch_tasks_with calls next_task until it returns None.
SpecQueueFair == SpecQueue /\ WF_vars(QNextTask)

\* One WeakArchetypeMap keyed by the weak ids of archetypes that come and go.
NextWeak ==
    \/ ArchetypeNew
    \/ \E a \in 1..MaxArch : ArchetypeDrop(a)
    \/ \E a \in 1..MaxArch : \E v \in Vals : WInsert(a, v)
    \/ \E a \in 1..MaxArch : \E v \in Vals : WAdd(a, v)
    \/ \E a \in 1..MaxArch : WTryRemove(a)
    \/ \E a \in 1..MaxArch : WGet(a)
    \/ WIter
    \/ WGc

SpecWeak == Init /\ [][NextWeak]_vars

\* A debug build and a release build of one program, given the same calls.
NextTwin ==
    \/ TwinArchetypeNew
    \/ \E a \in 1..MaxTwinArch : TwinSpawn(a)
    \/ \E a \in 1..MaxTwinArch : \E k \in 1..MaxTwinEnts : TwinDespawn(a, k)
    \/ \E k \in 1..MaxTwinEnts : \E v \in Vals : TwinInsert(k, v)
    \/ \E k \in 1..MaxTwinEnts : \E v \in Vals : TwinAdd(k, v)
    \/ \E k \in 1..MaxTwinEnts : TwinGet(k)
    \/ \E k \in 1..MaxTwinEnts : TwinTryRemove(k)

SpecTwin == InitLifetime /\ [][NextTwin]_vars

\* ------------------------------------------------------------------ claims

\* Entity.is_possibly_alive / is_condemned of the k-th spawned entity.
EntAlive(k) == DLIsPossiblyAlive(Env, ents[k].lifetime)
EntCondemned(k) == DLIsCondemned(Env, ents[k].lifetime)

\* The entities Archetype object a spawned and whose despawn has not run.
NotDespawned(a) ==
    {k \in 1..Len(ents) : spawnedBy[k] = a /\ k \notin despawned}

\* C1: the end-to-end allocation scenario.  Following the script, Entity 1 and
\* 2 get slots 0 and 1 of the first archetype, Entity 3 and 4 slots 0 and 1 of
\* the second; after despawn(Entity 1), Entity 5 gets slot 0 and Entity 6 slot
\* 2, and then Entity 1 is dead and Entities 2..6 are alive; after
\* despawn(Entity 3), Entity 7 gets slot 0.
C1_EndToEndScenario ==
    /\ scenario >= 4 => ents[1].slot = 0 /\ ents[2].slot = 1
    /\ scenario >= 6 => ents[3].slot = 0 /\ ents[4].slot = 1
    /\ scenario >= 8 => ents[5].slot = 0
    /\ scenario >= 9 => ents[6].slot = 2
    /\ scenario = 9 => EntCondemned(1) /\ \A k \in 2..6 : EntAlive(k)
    /\ scenario >= 11 => ents[7].slot = 0

\* C2: in every reachable state the entities of an archetype that were spawned
\* and not yet despawned occupy pairwise distinct slots, and each of these
\* slots holds the lifetime of its entity.
C2_LiveEntitiesHoldDistinctSlots ==
    \A a \in LiveArchs :
        /\ \A i, j \in NotDespawned(a) : i # j => ents[i].slot # ents[j].slot
        /\ \A i \in NotDespawned(a) :
              FreeListGet(archs[a].slots, ents[i].slot) = Some(ents[i].lifetime)

\* C3: a spawn returns a slot freed by despawn and not yet reissued whenever
\* there is one, and returns a new index (the previous length of the slot
\* table) only when there is none.
C3_FreedSlotsReusedBeforeGrowth ==
    [][\A a \in LiveArchs :
          last'.op = "spawn" /\ last'.arch = a =>
             /\ freed[a] # {} => last'.ret \in freed[a]
             /\ last'.ret = Len(archs[a].slots.slots) => freed[a] = {}]_vars

\* C3 witness: a spawn has just returned a slot that a despawn had freed, in an
\* archetype whose slot table is longer than that.
C3_Witness ==
    /\ debug_assertions
    /\ last.op = "spawn"
    /\ last.ret + 1 < Len(archs[last.arch].slots.slots)
    /\ \E k \in 1..(last.ent - 1) :
          k \in despawned /\ spawnedBy[k] = last.arch /\ ents[k].slot = last.ret

\* C4: Archetype::spawn leaves every entity that was alive before the call
\* alive after it (debug configuration).
C4_SpawnKeepsEntitiesAlive ==
    [][debug_assertions /\ last'.op = "spawn" =>
          \A k \in 1..Len(ents) : EntAlive(k) => EntAlive(k)']_vars

\* C5: a handle is alive from the Lifetime::new that returned it until the
\* first successful destroy/try_destroy on it, and is dead in every state after
\* that, whatever new/destroy calls follow and whoever owns its slot then.
C5_DeathIsPermanent ==
    \A h \in 1..Len(handles) : is_alive(Env, handles[h]) <=> h \notin destroyed

\* C5 witness: a destroyed handle is dead while a newer handle on the same slot
\* is alive.
C5_Witness ==
    \E h, n \in 1..Len(handles) :
        /\ h \in destroyed /\ n \notin destroyed
        /\ handles[h].slot = handles[n].slot
        /\ ~is_alive(Env, handles[h]) /\ is_alive(Env, handles[n])

\* C6: the handle a Lifetime::new returns differs in slot from, and does not
\* compare equal to, every earlier handle that was not destroyed before that
\* call; and two handles compare equal iff they are the same slot and
\* generation.
C6_GenerationalUniqueness ==
    /\ last.op = "Lifetime::new" =>
          \A h \in 1..(last.ent - 1) :
              h \notin destroyed =>
                 /\ ~LifetimeEq(handles[h], handles[last.ent])
                 /\ handles[h].slot # handles[last.ent].slot
    /\ \A h, n \in 1..Len(handles) :
          LifetimeEq(handles[h], handles[n]) <=> handles[h] = handles[n]

\* C6 witness: Lifetime::new has just returned a handle on the slot of an
\* earlier destroyed handle while an earlier handle is alive, and two handles
\* of one generation sit on different slots.
C6_Witness ==
    /\ last.op = "Lifetime::new"
    /\ \E h \in 1..(last.ent - 1) : h \notin destroyed
    /\ \E h \in 1..(last.ent - 1) :
          h \in destroyed /\ handles[h].slot = handles[last.ent].slot
    /\ \E h, n \in 1..Len(handles) :
          handles[h].gen = handles[n].gen /\ handles[h].slot # handles[n].slot

\* The call that led to this state is despawn(ents[k]) on Archetype object a.
IsDespawn(a, k) == last'.op = "despawn" /\ last'.arch = a /\ last'.ent = k

\* The slot table of Archetype object a, but for slot s.
OtherSlots(fl, s) ==
    [slots |-> [i \in 1..Len(fl.slots) |-> IF i = s + 1 THEN None ELSE fl.slots[i]],
     free  |-> fl.free \ {s}]

AllocatorUnchanged ==
    /\ ~panicked'
    /\ archs' = archs
    /\ slotData' = slotData
    /\ pool' = pool
    /\ ids' = ids

C9_DespawnOfDeadEntity_AnyBuild ==
    [][\A a \in LiveArchs : \A k \in 1..Len(ents) :
          IsDespawn(a, k) /\ spawnedBy[k] = a /\ k \in despawned =>
             AllocatorUnchanged]_vars

\* C9 amended: the same, in the debug configuration.
C9_DespawnOfDeadEntity ==
    [][\A a \in LiveArchs : \A k \in 1..Len(ents) :
          (/\ debug_assertions
           /\ IsDespawn(a, k)
           /\ spawnedBy[k] = a
           /\ k \in despawned) =>
             AllocatorUnchanged]_vars

\* C9 witness: an entity that was despawned before has just been despawned
\* again from its archetype, after its slot went to a new, live entity.
C9_Witness ==
    /\ debug_assertions
    /\ last.op = "despawn" /\ last.ret = 0
    /\ last.ent \in despawned
    /\ spawnedBy[last.ent] = last.arch
    /\ \E j \in 1..Len(ents) :
          /\ j > last.ent /\ spawnedBy[j] = last.arch /\ EntAlive(j)
          /\ ents[j].slot = ents[last.ent].slot
          /\ FreeListGet(archs[last.arch].slots, ents[j].slot) = Some(ents[j].lifetime)

\* C10: a despawn leaves the Storage as it was: the same runs, and the same
\* result of get for every entity, the despawned one included.
C10_DespawnKeepsStorage ==
    [][last'.op = "despawn" =>
          /\ DOMAIN storage' = DOMAIN storage
          /\ storage' = storage
          /\ \A k \in 1..Len(ents) :
                StorageGet(storage', ents[k]) = StorageGet(storage, ents[k])]_vars

\* C10 witness: an entity with a component has just been despawned, and get
\* still returns the component.
C10_Witness ==
    /\ last.op = "despawn" /\ last.ret = 1
    /\ debug_assertions /\ EntCondemned(last.ent)
    /\ StorageGet(storage, ents[last.ent]).some

\* C11: the ArchetypeId values of two archetypes that come from two different
\* Archetype::new calls never compare equal, whether or not one of them was
\* dropped in between.
C11_ArchetypeIdsNeverEqual ==
    \A a, b \in 1..Len(archs) :
        a # b => ~ArchetypeIdEq(ArchetypeIdOf(archs[a]), ArchetypeIdOf(archs[b]))

\* The ids of the archetypes that exist are pairwise distinct and non-zero, and
\* they are exactly the ids the generator holds as allocated.
LiveIdsUnique ==
    /\ \A a, b \in LiveArchs : a # b => archs[a].id # archs[b].id
    /\ \A a \in LiveArchs : archs[a].id # 0
    /\ ids = {archs[a].id : a \in LiveArchs}

\* A step of Archetype::new returns an id no archetype existing before it holds.
NewIdIsFree ==
    last'.op = "new" /\ Len(archs') = Len(archs) + 1
        => \A a \in LiveArchs : archs[a].id # archs'[Len(archs')].id

\* C12: live archetype ids are pairwise distinct and non-zero, the generator's
\* set of allocated ids is exactly the set of live ids, and Archetype::new hands
\* an id out again only after the archetype that held it was dropped.
C12_LiveArchetypeIdsUnique == []LiveIdsUnique /\ [][NewIdIsFree]_vars

\* An id was handed out again after its first holder was dropped.
C12_Witness ==
    /\ last.op = "new"
    /\ Len(archs) \in LiveArchs
    /\ \E a \in 1..Len(archs) :
          /\ archs[a].dropped
          /\ archs[a].id = archs[Len(archs)].id

\* C13: for a live entity e, after add(e, v) get(e) returns Some(v); a
\* try_remove(e) that follows returns Some(v), and after it get(e) returns None.
C13_StorageRoundTrip ==
    [][ /\ (last'.op = "add" /\ EntAlive(last'.ent))
            => StorageGet(storage', ents[last'.ent]) = SomeVal(last'.val)
        /\ (/\ last.op = "add" /\ EntAlive(last.ent)
            /\ last'.op = "try_remove" /\ last'.ent = last.ent)
            => /\ last'.ret = last.val
               /\ StorageGet(storage', ents[last.ent]) = NoVal ]_vars

\* add has stored v for a live entity whose slot held another value, in a
\* Storage with a second run.
C13_Witness ==
    /\ last.op = "add"
    /\ EntAlive(last.ent)
    /\ last.ret # 0 /\ last.ret # last.val
    /\ StorageGet(storage, ents[last.ent]) = SomeVal(last.val)
    /\ Cardinality(DOMAIN storage) = 2

\* The indices of the Full slots of a run.
FullSlots(comps) == {i \in 1..Len(comps) : comps[i].full}

\* C14: when try_remove or remove takes the last Full slot of an archetype's
\* run, get_run for that archetype returns None right afterwards, and the runs
\* of the other archetypes stay as they are.
C14_RunGarbageCollection ==
    [][ \A k \in 1..Len(ents) :
          LET id == ents[k].archetype.id
          IN  (/\ last'.op \in {"try_remove", "remove"}
               /\ last'.ent = k
               /\ last'.ret # 0
               /\ id \in DOMAIN storage
               /\ FullSlots(storage[id].comps) = {ents[k].slot + 1})
              => /\ StorageGetRun(storage', ents[k].archetype) = <<>>
                 /\ \A j \in DOMAIN storage \ {id} :
                       j \in DOMAIN storage' /\ storage'[j] = storage[j] ]_vars

\* A removal has emptied one run and dropped it while another run is present.
C14_Witness ==
    /\ last.op \in {"try_remove", "remove"}
    /\ last.ret # 0
    /\ ents[last.ent].archetype.id \notin DOMAIN storage
    /\ DOMAIN storage # {}

\* C15 as stated: after any sequence of get_or_create_run, insert, add,
\* try_remove and remove, every run in the Storage's map has at least one Full
\* slot.
C15_NoEmptyRunIsKept_WithCreate ==
    \A id \in DOMAIN storage : FullSlots(storage[id].comps) # {}

\* C15, amended: a run without a Full slot is in the map only because
\* get_or_create_run has just created it, or because it was there without a
\* Full slot before the step; insert, add, try_remove and remove never leave
\* behind a run they have emptied.
C15_NoEmptyRunIsKept ==
    [][ \A id \in DOMAIN storage' :
          FullSlots(storage'[id].comps) = {}
          => \/ id \in DOMAIN storage /\ FullSlots(storage[id].comps) = {}
             \/ last'.op = "get_or_create_run" /\ id \notin DOMAIN storage ]_vars

\* A removal has emptied and dropped one run, next to a run that
\* get_or_create_run created and that is still empty.
C15_Witness ==
    /\ last.op \in {"try_remove", "remove"}
    /\ last.ret # 0
    /\ ents[last.ent].archetype.id \notin DOMAIN storage
    /\ \E id \in DOMAIN storage : FullSlots(storage[id].comps) = {}

\* The slot stored for an entity's archetype id and slot index, Empty if there
\* is none, and the length of the run, 0 if there is none.
StoredAt(st, entity) ==
    IF HasRun(st, entity.archetype) /\ entity.slot < Len(st[entity.archetype.id].comps)
    THEN st[entity.archetype.id].comps[entity.slot + 1] ELSE Empty

RunLen(st, entity) ==
    IF HasRun(st, entity.archetype) THEN Len(st[entity.archetype.id].comps) ELSE 0

\* C16: insert(e, v) returns the value stored at (e.archetype, e.slot) if there
\* was one and None otherwise; afterwards get(e) returns Some(v); when e.slot is
\* not below the run's length, the length becomes e.slot + 1 and every new slot
\* below e.slot is Empty.
C16_InsertReplaces ==
    [][ \A k \in 1..Len(ents) :
          (last'.op = "insert" /\ last'.ent = k)
          => LET e == ents[k]
                 prev == StoredAt(storage, e)
                 len == RunLen(storage, e)
             IN  /\ last'.ret = (IF prev.full THEN prev.value ELSE 0)
                 /\ StorageGet(storage', e) = SomeVal(last'.val)
                 /\ e.slot >= len
                    => /\ RunLen(storage', e) = e.slot + 1
                       /\ \A i \in (len + 1)..e.slot :
                             ~storage'[e.archetype.id].comps[i].full ]_vars

\* insert has created a run for an entity at a slot index above zero: the run
\* holds that value alone, behind Empty slots.
C16_Witness ==
    /\ last.op = "insert"
    /\ last.ret = 0
    /\ ents[last.ent].slot >= 1
    /\ RunLen(storage, ents[last.ent]) = ents[last.ent].slot + 1
    /\ FullSlots(storage[ents[last.ent].archetype.id].comps) = {ents[last.ent].slot + 1}

\* What a step add(e, v) leaves, against what insert(e, v) would have left in
\* its place: the same Storage, registry and result, and a log that is the log
\* of insert and the messages `extra`.
AddIsInsertPlus(k, extra) ==
    LET i == StorageInsert(Env, storage, ents[k], last'.val)
    IN  /\ storage' = i.st
        /\ slotData' = i.env.data
        /\ created' = i.env.created
        /\ pool' = i.env.pool
        /\ panicked' = i.env.panicked
        /\ last'.ret = (IF i.old.some THEN i.old.val ELSE 0)
        /\ log' = i.env.log \cup extra

\* C17 as stated: add(e, v) leaves the Storage and the dependency counters as
\* insert(e, v) would; when e had a value, the one difference is a warning
\* logged in debug builds.
C17_AddIsInsertPlusWarning_Only ==
    [][ \A k \in 1..Len(ents) :
          (last'.op = "add" /\ last'.ent = k)
          => AddIsInsertPlus(k,
                IF debug_assertions /\ StoredAt(storage, ents[k]).full
                THEN {"add of an existing component"} ELSE {}) ]_vars

\* C17, amended: as stated, but in debug builds the check for an existing value
\* also logs the error of get_slot_by_idx when the lifetime stored with that
\* value is already condemned.
C17_AddIsInsertPlusWarning ==
    [][ \A k \in 1..Len(ents) :
          (last'.op = "add" /\ last'.ent = k)
          => LET prev == StoredAt(storage, ents[k])
             IN  AddIsInsertPlus(k,
                    IF debug_assertions /\ prev.full
                    THEN {"add of an existing component"} \cup
                         (IF DLIsCondemned(Env, prev.lifetime)
                          THEN {"fetched slot of dead entity"} ELSE {})
                    ELSE {}) ]_vars

\* add has replaced a value whose stored lifetime was condemned, in a debug
\* build: the warning and the error are both in the log.
C17_Witness ==
    /\ last.op = "add"
    /\ debug_assertions
    /\ last.ret # 0 /\ last.ret # last.val
    /\ StorageGet(storage, ents[last.ent]) = SomeVal(last.val)
    /\ {"add of an existing component", "fetched slot of dead entity"} \subseteq log

\* The value of an Option<T> as a call's result: 0 for None.
RetOf(opt) == IF opt.some THEN opt.val ELSE 0

\* C18: get(e) and get_mut(e) on an entity whose lifetime is condemned do not
\* panic and return what is stored at (e.archetype id, e.slot), which is what a
\* live handle with the same archetype id and slot gets; the Storage is
\* unchanged.
C18_DeadEntityAccess ==
    [][ \A k \in 1..Len(ents) :
          (last'.op \in {"get", "get_mut"} /\ last'.ent = k /\ EntCondemned(k))
          => /\ ~panicked'
             /\ last'.ret = RetOf(IntoValue(StoredAt(storage, ents[k])))
             /\ storage' = storage
             /\ \A j \in 1..Len(ents) :
                   (/\ EntAlive(j)
                    /\ ArchetypeIdEq(ents[j].archetype, ents[k].archetype)
                    /\ ents[j].slot = ents[k].slot)
                   => last'.ret = RetOf(StorageGetCall(Env, storage, ents[j]).old) ]_vars

\* get or get_mut through a condemned entity has returned a value, and a live
\* entity holds the same archetype id and slot.
C18_Witness ==
    /\ last.op \in {"get", "get_mut"}
    /\ EntCondemned(last.ent)
    /\ last.ret # 0
    /\ "fetch from dead entity" \in log
    /\ ~panicked
    /\ \E j \in 1..Len(ents) :
          /\ EntAlive(j)
          /\ ArchetypeIdEq(ents[j].archetype, ents[last.ent].archetype)
          /\ ents[j].slot = ents[last.ent].slot

\* C19: in the debug configuration, whenever get(e) or get_mut(e) returns a
\* value from a slot whose stored lifetime is not e's own, at least one error
\* is logged during the call.
C19_StaleReadsAreLogged ==
    [][ \A k \in 1..Len(ents) :
          (/\ debug_assertions
           /\ last'.op \in {"get", "get_mut"} /\ last'.ent = k
           /\ last'.ret # 0
           /\ ~LifetimeEq(StoredAt(storage, ents[k]).lifetime, ents[k].lifetime))
          => log' \cap {"fetch from dead entity", "fetched slot of dead entity"} # {} ]_vars

\* A live entity has read the value stored by a previous holder of its slot.
C19_Witness ==
    /\ debug_assertions
    /\ last.op \in {"get", "get_mut"}
    /\ last.ret # 0
    /\ EntAlive(last.ent)
    /\ ~LifetimeEq(StoredAt(storage, ents[last.ent]).lifetime, ents[last.ent].lifetime)
    /\ log = {"fetched slot of dead entity"}

\* C20: storage[e] (Index and IndexMut) panics exactly when get(e) would return
\* None, and returns the value of get(e) otherwise; the Storage is unchanged.
C20_IndexPanicsIffAbsent ==
    [][ \A k \in 1..Len(ents) :
          (last'.op \in {"index", "index_mut"} /\ last'.ent = k)
          => LET g == StorageGetCall(Env, storage, ents[k])
             IN  /\ panicked' <=> ~g.old.some
                 /\ last'.ret = RetOf(g.old)
                 /\ storage' = storage ]_vars

\* Indexing has panicked for a live entity without a component while the
\* Storage holds the component of another entity.
C20_Witness ==
    /\ last.op \in {"index", "index_mut"}
    /\ panicked
    /\ EntAlive(last.ent)
    /\ ~HasRun(storage, ents[last.ent].archetype)
    /\ DOMAIN storage # {}

\* C21: when nothing is stored at (e.archetype, e.slot), try_remove(e) returns
\* None and remove(e) only logs (its warning, in a debug build); neither
\* panics, and the Storage and the registry are as they were.
C21_RemoveAbsentChangesNothing ==
    [][ \A k \in 1..Len(ents) :
          (/\ last'.op \in {"try_remove", "remove"} /\ last'.ent = k
           /\ ~StoredAt(storage, ents[k]).full)
          => /\ last'.ret = 0
             /\ ~panicked'
             /\ storage' = storage
             /\ slotData' = slotData /\ pool' = pool /\ created' = created
             /\ last'.op = "remove"
                => ("remove of a missing component" \in log' <=> debug_assertions) ]_vars

\* A removal has found an Empty slot below the length of the run.
C21_Witness ==
    /\ last.op \in {"try_remove", "remove"}
    /\ last.ret = 0
    /\ ents[last.ent].slot < RunLen(storage, ents[last.ent])
    /\ ~StoredAt(storage, ents[last.ent]).full

\* The Dependent wrappers constructed or cloned over lifetime lt and not yet
\* dropped.
LiveDependents(lt) ==
    {d \in 1..Len(dependents) : dependents[d].live /\ LifetimeEq(dependents[d].lt, lt)}

C23_UnderflowPanics ==
    [][ \A h \in 1..Len(handles) :
          (last'.op = "dec_dep" /\ last'.ent = h)
          => /\ panicked' <=> (/\ is_alive(Env, handles[h])
                               /\ slotData[handles[h].slot].deps = 0)
             /\ panicked' => slotData' = slotData
             /\ \A s \in LSlotIds : slotData'[s].deps <= slotData[s].deps ]_vars

\* dec_dep has panicked on a live lifetime while another lifetime holds a
\* counted dependency.
C23_Witness ==
    /\ last.op = "dec_dep"
    /\ panicked
    /\ is_alive(Env, handles[last.ent])
    /\ slotData[handles[last.ent].slot].deps = 0
    /\ \E g \in 1..Len(handles) :
          is_alive(Env, handles[g]) /\ slotData[handles[g].slot].deps > 0

\* C24: inc_dep, try_inc_dep and dec_dep through a handle whose lifetime is
\* dead do not panic and leave every cell's generation and dependency counter
\* as they were, whoever owns the cell now; try_inc_dep returns false and
\* inc_dep logs an error.
C24_StaleHandlesLeaveCounter ==
    [][ \A h \in 1..Len(handles) :
          (/\ last'.op \in {"inc_dep", "try_inc_dep", "dec_dep"} /\ last'.ent = h
           /\ ~is_alive(Env, handles[h]))
          => /\ ~panicked'
             /\ slotData' = slotData
             /\ pool' = pool
             /\ last'.op = "try_inc_dep" => last'.ret = 0
             /\ last'.op = "inc_dep" => "inc_dep on dead lifetime" \in log' ]_vars

\* A call through a dead handle whose cell belongs to a newer live Lifetime
\* with a dependency counted on it.
C24_Witness ==
    /\ last.op \in {"inc_dep", "try_inc_dep", "dec_dep"}
    /\ ~is_alive(Env, handles[last.ent])
    /\ \E g \in 1..Len(handles) :
          /\ handles[g].slot = handles[last.ent].slot
          /\ is_alive(Env, handles[g])
          /\ slotData[handles[g].slot].deps = MaxDeps

\* C25: try_destroy on a handle returns true exactly when no destroy or
\* try_destroy on that handle has succeeded before; a later try_destroy
\* returns false and a later destroy logs, neither panics, and the cell's
\* generation, dependency counter and place in or out of the pool stay as
\* they are, whoever owns the cell now.
C25_DoubleDestroyTolerated ==
    [][ \A h \in 1..Len(handles) :
          (last'.op \in {"try_destroy", "destroy"} /\ last'.ent = h)
          => /\ ~panicked'
             /\ last'.ret = 1 <=> h \notin destroyed
             /\ h \in destroyed
                => /\ slotData' = slotData
                   /\ pool' = pool
                   /\ last'.op = "destroy" => "destroy of dead lifetime" \in log' ]_vars

\* A second destroy through a handle whose cell belongs to a newer live
\* Lifetime with a dependency counted on it.
C25_Witness ==
    /\ last.op \in {"try_destroy", "destroy"}
    /\ last.ret = 0
    /\ last.ent \in destroyed
    /\ \E g \in 1..Len(handles) :
          /\ handles[g].slot = handles[last.ent].slot
          /\ is_alive(Env, handles[g])
          /\ slotData[handles[g].slot].deps > 0

\* C26 as stated: a successful destroy or try_destroy returns the cell to the
\* pool if and only if its dependency counter was zero.
C26_RecycledIffNoDependents ==
    [][ \A h \in 1..Len(handles) :
          (last'.op \in {"try_destroy", "destroy"} /\ last'.ent = h /\ last'.ret = 1)
          => (handles[h].slot \in pool' <=> slotData[handles[h].slot].deps = 0) ]_vars

\* C26, amended: a successful destroy or try_destroy logs when the dependency
\* counter is nonzero, resets the counter to zero and returns the cell to the
\* pool unless its generation has reached u64::MAX, whatever the counter was;
\* no cell of the pool carries a dependency count.
C26_RecycledWithCounterReset ==
    /\ [](\A s \in pool : slotData[s].deps = 0)
    /\ [][ \A h \in 1..Len(handles) :
             (last'.op \in {"try_destroy", "destroy"} /\ last'.ent = h /\ last'.ret = 1)
             => LET s == handles[h].slot
                IN  /\ s \in pool' <=> slotData'[s].gen # U64_MAX
                    /\ slotData'[s].deps = 0
                    /\ "disconnected dependencies" \in log' <=> slotData[s].deps > 0 ]_vars

\* A Lifetime with dependencies counted on it has been destroyed: its cell is
\* in the pool, with the counter at zero.
C26_Witness ==
    /\ last.op \in {"try_destroy", "destroy"}
    /\ last.ret = 1
    /\ "disconnected dependencies" \in log
    /\ handles[last.ent].slot \in pool
    /\ slotData[handles[last.ent].slot].deps = 0

\* C27: the generation of a cell never decreases and a successful destroy
\* raises it by exactly one; a cell whose generation is u64::MAX is never in
\* the pool, no Lifetime of generation u64::MAX is issued, and a handle that is
\* dead stays dead.
C27_GenerationsNeverWrap ==
    /\ [](\A s \in LSlotIds : slotData[s].gen = U64_MAX => s \notin pool)
    /\ [](\A h \in 1..Len(handles) : handles[h].gen < U64_MAX)
    /\ [][ /\ \A s \in LSlotIds : slotData'[s].gen >= slotData[s].gen
           /\ \A h \in 1..Len(handles) :
                 /\ ~is_alive(Env, handles[h])
                    => handles'[h] = handles[h] /\ ~is_alive(Env, handles[h])'
                 /\ (last'.op \in {"try_destroy", "destroy"} /\ last'.ent = h
                       /\ last'.ret = 1)
                    => slotData'[handles[h].slot].gen = slotData[handles[h].slot].gen + 1 ]_vars

\* A destroy has brought a cell to generation u64::MAX: the cell is leaked.
C27_Witness ==
    /\ last.op \in {"try_destroy", "destroy"}
    /\ last.ret = 1
    /\ handles[last.ent].gen = U64_MAX - 1
    /\ slotData[handles[last.ent].slot].gen = U64_MAX
    /\ handles[last.ent].slot \notin pool
    /\ "lifetime leaked" \in log

\* The entities Archetype object a spawned that are neither despawned nor dead.
LiveIn(a) == {k \in NotDespawned(a) : EntAlive(k)}

\* A spawn that returned gave the index of the table slot it stored the
\* entity's lifetime in, an index of the index type.
SlotIndexExact(a) ==
    ~panicked'
    => /\ Len(ents') = Len(ents) + 1
       /\ LET e == ents'[Len(ents')]
          IN  /\ e.slot = last'.ret
              /\ e.slot \in 0..U32_MAX
              /\ archs'[a].slots.slots[e.slot + 1] = Some(e.lifetime)

C29_DropDestroysOwned ==
    [][ \A a \in 1..Len(archs) :
          (debug_assertions /\ last'.op = "drop" /\ last'.arch = a)
          => /\ ~is_alive(Env, archs[a].lifetime)'
             /\ ~DLIsPossiblyAlive(Env, ArchetypeIdOf(archs[a]).lifetime)'
             /\ \A k \in NotDespawned(a) : EntCondemned(k)'
             /\ \A k \in 1..Len(ents) :
                   spawnedBy[k] # a => (EntAlive(k)' <=> EntAlive(k)) ]_vars

\* An Archetype has been dropped with an entity still in its slot table, which
\* is dead now, while an entity of another Archetype is alive.
C29_Witness ==
    /\ debug_assertions
    /\ last.op = "drop"
    /\ \E k \in NotDespawned(last.arch) :
          /\ FreeListGet(archs[last.arch].slots, ents[k].slot) = Some(ents[k].lifetime)
          /\ EntCondemned(k)
    /\ \E j \in 1..Len(ents) : spawnedBy[j] # last.arch /\ EntAlive(j)

\* The number of Full slots of a Storage that were filled with lifetime lt.
FullWith(st, lt) ==
    Cardinality({p \in (DOMAIN st) \X (1..(U32_MAX + 1)) :
                   /\ p[2] <= Len(st[p[1]].comps)
                   /\ st[p[1]].comps[p[2]].full
                   /\ LifetimeEq(st[p[1]].comps[p[2]].lifetime, lt)})

\* The dependency counter of the k-th spawned entity's lifetime.
DepsOf(k) == slotData[ents[k].lifetime.slot].deps

\* In a debug build the counter of every live entity is the number of Full
\* slots, over the Storages, filled with its lifetime, and of the Dependents
\* held elsewhere.
CountersMatchSlots ==
    debug_assertions
    => \A k \in 1..Len(ents) :
          EntAlive(k)
          => DepsOf(k) = FullWith(storage, ents[k].lifetime)
                         + FullWith(storageB, ents[k].lifetime)
                         + Cardinality(LiveDependents(ents[k].lifetime))

\* insert or add through a live entity over a slot filled with that entity's
\* own lifetime leaves its counter as it was.
ReplaceKeepsCounter ==
    \A k \in 1..Len(ents) :
       (/\ debug_assertions /\ last'.ent = k /\ EntAlive(k)
        /\ \/ /\ last'.op \in {"insert", "add"}
              /\ StoredAt(storage, ents[k]).full
              /\ LifetimeEq(StoredAt(storage, ents[k]).lifetime, ents[k].lifetime)
           \/ /\ last'.op \in {"B.insert", "B.add"}
              /\ StoredAt(storageB, ents[k]).full
              /\ LifetimeEq(StoredAt(storageB, ents[k]).lifetime, ents[k].lifetime))
       => DepsOf(k)' = DepsOf(k)

\* C30: in a debug build, after any insert, add, try_remove and remove over
\* two Storages, the dependency counter of every live entity is the number of
\* Full slots filled with its lifetime (and of Dependents held elsewhere);
\* replacing an entity's own component changes its counter by zero.
C30_SlotsKeepCounterHonest == []CountersMatchSlots /\ [][ReplaceKeepsCounter]_vars

\* A live entity with a component in each Storage has had one of them
\* replaced: its counter is 2.
C30_Witness ==
    /\ debug_assertions
    /\ last.op \in {"insert", "add"}
    /\ last.ret # 0
    /\ EntAlive(last.ent)
    /\ DepsOf(last.ent) = 2
    /\ FullWith(storage, ents[last.ent].lifetime) = 1
    /\ FullWith(storageB, ents[last.ent].lifetime) = 1

\* The Full slots of both Storages filled with the lifetime of the k-th entity,
\* and the Dependents held on it elsewhere.
Attached(k) ==
    FullWith(storage, ents[k].lifetime) + FullWith(storageB, ents[k].lifetime)
    + Cardinality(LiveDependents(ents[k].lifetime))

\* C31: in a debug build, a despawn(e) that destroys e's lifetime logs the
\* dependency error if and only if a Storage still holds a component inserted
\* for e (or a Dependent on e is outstanding); with every component of e
\* removed first it logs nothing (but the leak of the registry cell, should
\* this destruction be the one that takes its generation to u64::MAX).
C31_OutlivingComponentsAreLogged ==
    [][ \A k \in 1..Len(ents) :
          (debug_assertions /\ last'.op = "despawn" /\ last'.ent = k /\ last'.ret = 1)
          => /\ "disconnected dependencies" \in log' <=> Attached(k) > 0
             /\ Attached(k) = 0 =>
                   log' = IF slotData'[ents[k].lifetime.slot].gen = U64_MAX
                          THEN {"lifetime leaked"} ELSE {} ]_vars

\* An entity with a component in each Storage has been despawned: the error
\* is in the log.
C31_Witness ==
    /\ debug_assertions
    /\ last.op = "despawn" /\ last.ret = 1
    /\ Attached(last.ent) = 2
    /\ "disconnected dependencies" \in log

\* C32: insert, add, try_remove and remove on entity e leave get(e') as it
\* was for every entity e' whose archetype id or slot differs from e's, and
\* leave the runs of the other archetype ids as they were, none created and
\* none deleted.
C32_StorageOperationsAreLocal ==
    [][ \A k \in 1..Len(ents) :
          (last'.op \in {"insert", "add", "try_remove", "remove"} /\ last'.ent = k)
          => /\ \A j \in 1..Len(ents) :
                   (\/ ~ArchetypeIdEq(ents[j].archetype, ents[k].archetype)
                    \/ ents[j].slot # ents[k].slot)
                   => StorageGet(storage', ents[j]) = StorageGet(storage, ents[j])
             /\ DOMAIN storage' \ {ents[k].archetype.id}
                   = DOMAIN storage \ {ents[k].archetype.id}
             /\ \A id \in DOMAIN storage \ {ents[k].archetype.id} :
                   storage'[id] = storage[id] ]_vars

\* A component has been removed while another entity of the same archetype,
\* at another slot, and an entity of another archetype have theirs.
C32_Witness ==
    /\ last.op \in {"try_remove", "remove"}
    /\ last.ret # 0
    /\ \E j \in 1..Len(ents) :
          /\ ArchetypeIdEq(ents[j].archetype, ents[last.ent].archetype)
          /\ ents[j].slot # ents[last.ent].slot
          /\ StorageGet(storage, ents[j]).some
    /\ \E j \in 1..Len(ents) :
          /\ ~ArchetypeIdEq(ents[j].archetype, ents[last.ent].archetype)
          /\ StorageGet(storage, ents[j]).some

\* C33: after any sequence of insert, add, try_remove and remove, every run of
\* the Storage ends in a Full slot: its length is one more than the highest
\* slot index that holds a component.
C33_RunsAreTrimmed ==
    \A id \in DOMAIN storage :
       /\ storage[id].comps # <<>>
       /\ storage[id].comps[Len(storage[id].comps)].full
       /\ Len(storage[id].comps)
             = CHOOSE n \in FullSlots(storage[id].comps) :
                  \A m \in FullSlots(storage[id].comps) : m <= n

\* The component at slot 1 has been removed from a run that keeps the component
\* at slot 0 behind an Empty-free tail: the run has shrunk to one slot.
C33_Witness ==
    /\ last.op \in {"try_remove", "remove"}
    /\ last.ret # 0
    /\ ents[last.ent].slot = 1
    /\ RunLen(storage, ents[last.ent]) = 1


\* The step is the critical section of a try_destroy/destroy call.
DestroySection ==
    /\ last'.op \in {"unlock", "try_destroy", "destroy"}
    /\ thr[last'.arch].pc = "idle"

\* The step's critical section destroyed the handle it was called on.
DestroySucceeds == DestroySection /\ destroyed' # destroyed

\* The threads that are between the two halves of a call holding cell s.
Holding(s) == {t \in Threads : thr[t].pc # "idle" /\ thr[t].s = s}

\* C34: racing destroys are serialised. Of the try_destroy/destroy calls on one
\* Lifetime exactly one succeeds (the first to enter the critical section; a
\* call returns true only if its own critical section succeeded), the cell's
\* generation rises by exactly one in that critical section and in no other
\* step, a destroyed handle's cell is returned to the pool at most once and
\* while nobody else holds it, and is_alive returns whether the one
\* destruction has happened yet.
C34_RacingDestroysSerialised ==
    /\ [](/\ \A i, j \in 1..Len(freeLog) : freeLog[i] = freeLog[j] => i = j
          /\ \A i \in 1..Len(freeLog) : freeLog[i] \in destroyed
          /\ \A t \in Threads : thr[t].pc = "free" =>
                /\ thr[t].h \in destroyed
                /\ thr[t].s \notin pool
                /\ Holding(thr[t].s) = {t}
                /\ \A i \in 1..Len(freeLog) : freeLog[i] # thr[t].h)
    /\ [][/\ DestroySection =>
               /\ last'.ent \in destroyed'
               /\ last'.ret = (IF last'.ent \in destroyed THEN 0 ELSE 1)
          /\ last'.op \in {"try_destroy", "destroy"} /\ last'.ret = 1 =>
               /\ last'.ent \in destroyed'
               /\ DestroySection \/ thr[last'.arch] =
                     [pc |-> "free", op |-> last'.op, h |-> last'.ent,
                      s |-> handles[last'.ent].slot]
          /\ \A s \in LSlotIds :
               slotData'[s].gen = slotData[s].gen +
                   (IF DestroySucceeds /\ handles[last'.ent].slot = s THEN 1 ELSE 0)
          /\ last'.op = "is_alive" =>
               last'.ret = (IF last'.ent \in destroyed THEN 0 ELSE 1)]_vars

\* C34 witness: one thread's destroy has won and is about to return the cell
\* to the pool when another thread's try_destroy of the same Lifetime returns
\* false.
C34_Witness ==
    /\ last.op = "try_destroy"
    /\ last.ret = 0
    /\ \E t \in Threads :
          /\ t # last.arch
          /\ thr[t].pc = "free"
          /\ thr[t].h = last.ent


\* The cells no Lifetime occupies: released to the pool, or drawn by a
\* Lifetime::new that has not read the generation yet.
Vacant == pool \cup {thr[t].s : t \in {u \in Threads : thr[u].pc = "read"}}

\* C35: dependency updates racing a destroy never leak into the next
\* generation. A try_inc_dep through handle h returns true and adds one to
\* the cell's counter if it runs before h's destruction, and returns false
\* otherwise; no try_inc_dep or dec_dep through a destroyed h changes any
\* cell; a vacant cell's counter is zero, so that a Lifetime::new that reuses
\* it starts at zero; and a live Lifetime's counter is exactly the successful
\* increments less the decrements made through it (none is lost).
C35_NoLeakIntoNextGeneration ==
    /\ [](~panicked =>
          /\ \A s \in Vacant : slotData[s].deps = 0
          /\ \A h \in 1..Len(handles) :
                h \notin destroyed => slotData[handles[h].slot].deps = counted[h])
    /\ [][/\ last'.op = "try_inc_dep" =>
               /\ last'.ret = (IF last'.ent \in destroyed THEN 0 ELSE 1)
               /\ last'.ret = 1 =>
                     slotData' = [slotData EXCEPT ![handles[last'.ent].slot].deps = @ + 1]
          /\ last'.op = "dec_dep" /\ last'.ent \notin destroyed /\ ~panicked' =>
               slotData' = [slotData EXCEPT ![handles[last'.ent].slot].deps = @ - 1]
          /\ last'.op \in {"try_inc_dep", "dec_dep"} /\ last'.ent \in destroyed =>
               /\ slotData' = slotData
               /\ ~panicked'
          /\ last'.op = "Lifetime::new" =>
               /\ slotData'[handles'[last'.ent].slot].deps = 0
               /\ handles'[last'.ent].gen = slotData'[handles'[last'.ent].slot].gen]_vars

\* C35 witness: a try_inc_dep through a destroyed handle returns false
\* while the Lifetime that reuses its cell is alive and holds a dependency.
C35_Witness ==
    /\ last.op = "try_inc_dep"
    /\ last.ret = 0
    /\ \E h \in 1..Len(handles) :
          /\ h # last.ent
          /\ handles[h].slot = handles[last.ent].slot
          /\ h \notin destroyed
          /\ counted[h] > 0
          /\ slotData[handles[h].slot].deps = counted[h]


\* What a program's archetypes, handles and Storage hold, the lifetimes left
\* out: per archetype its id, which slots hold a value and which are free; per
\* Entity handle its archetype id and slot index; per run its components.
Contents(p) ==
    [archs |-> [a \in DOMAIN p.archs |->
                  [id |-> p.archs[a].id,
                   held |-> [i \in DOMAIN p.archs[a].slots.slots |->
                               p.archs[a].slots.slots[i].some],
                   free |-> p.archs[a].slots.free]],
     ents |-> [k \in DOMAIN p.ents |->
                 [archetype |-> p.ents[k].archetype.id, slot |-> p.ents[k].slot]],
     storage |-> [i \in DOMAIN p.storage |->
                    [j \in DOMAIN p.storage[i].comps |->
                       [full |-> p.storage[i].comps[j].full,
                        value |-> p.storage[i].comps[j].value]]]]

\* C36: the release stub refines the debug lifetime on error-free runs. While
\* the debug build has logged no error, the release build given the same
\* Archetype::new/spawn/despawn and Storage insert/add/get/try_remove calls has
\* returned the same value from the last call (slot index, component or None),
\* has panicked exactly if the debug build has, and holds the same slot
\* tables, free sets, Entity handles and Storage contents.
C36_ReleaseRefinesDebug ==
    ~twin.d.errors =>
        /\ twin.r.ret = twin.d.ret
        /\ twin.r.panicked = twin.d.panicked
        /\ Contents(twin.r) = Contents(twin.d)
        /\ ~twin.r.errors

\* C36 witness: without an error in the debug build, an Entity was despawned
\* and its slot given to a later Entity, whose component try_remove has just
\* returned in both builds.
C36_Witness ==
    /\ ~twin.d.errors
    /\ last.op = "try_remove"
    /\ twin.d.ret # 0
    /\ twin.r.ret = twin.d.ret
    /\ \E j \in 1..Len(twin.d.ents) :
          /\ j < last.ent
          /\ twin.d.ents[j].slot = twin.d.ents[last.ent].slot
          /\ ~is_alive(ProgramEnv(twin.d), twin.d.ents[j].lifetime)
          /\ is_alive(ProgramEnv(twin.d), twin.d.ents[last.ent].lifetime)


\* What the map should hold for Archetype object a: the value last inserted
\* under its weak id and not removed since, if a has not been dropped.
Held(a) == IF a \in LiveArchs /\ wstored[a] # 0 THEN SomeVal(wstored[a]) ELSE NoVal

\* C37: WeakArchetypeMap never serves a value across archetype generations.
\* In every state get(id) of an archetype's weak id is the value inserted
\* under exactly that archetype while it was alive and not removed since, and
\* None once the archetype is dropped; the Option that insert, add and
\* try_remove return is that value too, never the value of a dropped
\* archetype that had the same numeric id; and iter yields exactly the values
\* of the archetypes that are alive.
C37_NoValueAcrossGenerations ==
    /\ [](~panicked =>
            \A a \in 1..Len(archs) : WeakGet(Env, wmap, WeakIdOf(a)) = Held(a))
    /\ [][/\ last'.op = "Weak.get" => wret'.old = Held(last'.arch)
          /\ last'.op \in {"Weak.insert", "Weak.add", "Weak.try_remove"} =>
                wret'.old = Held(last'.arch)
          /\ last'.op = "Weak.iter" =>
                wret'.items = {[id |-> WeakIdOf(a), value |-> wstored[a]] :
                                 a \in {b \in LiveArchs : wstored[b] # 0}}]_vars

\* C37 witness: the map still holds the entry of a dropped archetype when get
\* with the weak id of a live archetype of the same numeric id returns None.
C37_Witness ==
    /\ last.op = "Weak.get"
    /\ last.arch \in LiveArchs
    /\ wret.old = NoVal
    /\ archs[last.arch].id \in DOMAIN wmap.map
    /\ \E a \in 1..Len(archs) :
          /\ archs[a].dropped
          /\ archs[a].id = archs[last.arch].id
          /\ wmap.map[archs[a].id] = [lifetime |-> archs[a].lifetime,
                                      value |-> wstored[a]]

\* The Archetype object whose lifetime an entry of the map was stored under.
OwnerOf(entry) == CHOOSE a \in 1..Len(archs) : LifetimeEq(archs[a].lifetime, entry.lifetime)

\* C38: WeakArchetypeMap rejects dead keys without side effects. insert, add
\* and try_remove with the weak id of a dropped archetype return None and
\* leave the map as it was; gc removes the entries stored under dropped
\* archetypes, all of them, and keeps the entry of every live archetype.
C38_DeadKeysRejected ==
    [][/\ (/\ last'.op \in {"Weak.insert", "Weak.add", "Weak.try_remove"}
           /\ archs[last'.arch].dropped) =>
             /\ wret'.old = NoVal
             /\ wmap' = wmap
             /\ log' = {}
       /\ last'.op = "Weak.gc" =>
             /\ DOMAIN wmap'.map =
                   {i \in DOMAIN wmap.map : ~archs[OwnerOf(wmap.map[i])].dropped}
             /\ \A i \in DOMAIN wmap'.map : wmap'.map[i] = wmap.map[i]]_vars

\* C38 witness: insert with the weak id of a dropped archetype has returned
\* None and left in place the entry a live archetype holds under the same
\* numeric id.
C38_Witness ==
    /\ last.op = "Weak.insert"
    /\ archs[last.arch].dropped
    /\ wret.old = NoVal
    /\ \E b \in LiveArchs :
          /\ archs[b].id = archs[last.arch].id
          /\ archs[b].id \in DOMAIN wmap.map
          /\ wmap.map[archs[b].id] = [lifetime |-> archs[b].lifetime,
                                      value |-> wstored[b]]


\* The tasks returned so far, and the place of task t among them.
Returned == {returned[i] : i \in 1..Len(returned)}
PlaceOf(t) == CHOOSE i \in 1..Len(returned) : returned[i] = t

===========================================================================
